---------------------------- MODULE Spec2Model ----------------------------
(***************************************************************************)
(* GeoReferencer (sato4app/MapGPS): the georeferencing engine and the      *)
(* position synchronisation of image-origin markers.                       *)
(*                                                                         *)
(* Numbers.  A JavaScript number is modelled as an exact fraction <<n, d>> *)
(* in lowest terms with d > 0; NaN / Infinity is the pair <<0, 0>>; the    *)
(* value `undefined` (and null) is the empty tuple << >>.                  *)
(* Lengths are measured in equatorial degrees of arc (one unit =           *)
(* EARTH_RADIUS * pi / 180 metres), so that the spherical constants of the *)
(* source become small integers, and the trigonometric functions are       *)
(* replaced by their linearisation (cos = 1, log tan = identity).          *)
(* The estimator called on its own is computed a second time in IEEE 754   *)
(* binary64, bit for bit, because there the rounding decides the result.   *)
(*                                                                         *)
(* Style.  A value that is used more than once is passed to an operator as *)
(* an argument rather than named in a LET.                                 *)
(***************************************************************************)
EXTENDS Integers, Sequences, FiniteSets, TLC

(***************************************************************************)
(* Exact arithmetic standing for IEEE doubles.                             *)
(***************************************************************************)
Undef == << >>
NaN == <<0, 0>>

Abs(n) == IF n < 0 THEN -n ELSE n

RECURSIVE GCD(_, _)
GCD(a, b) == IF b = 0 THEN a ELSE GCD(b, a % b)

Lowest(n, d, g) == IF d < 0 THEN <<(-n) \div g, (-d) \div g>> ELSE <<n \div g, d \div g>>

Rat(n, d) == IF d = 0 THEN NaN ELSE Lowest(n, d, GCD(Abs(n), Abs(d)))

Num(n) == <<n, 1>>

\* false for undefined (which arithmetic turns into NaN), NaN and Infinity
isFinite(p) == p # Undef /\ p[2] # 0

\* ToNumber: undefined becomes NaN in arithmetic.
ToNumber(p) == IF p = Undef THEN NaN ELSE p

\* a + b over the least common denominator; g = gcd of the denominators
AddOver(a, b, g) == Rat(a[1] * (b[2] \div g) + b[1] * (a[2] \div g), (a[2] \div g) * b[2])

RAdd(p, q) ==
    IF ~isFinite(p) \/ ~isFinite(q) THEN NaN ELSE AddOver(p, q, GCD(p[2], q[2]))

RNeg(p) == IF ~isFinite(p) THEN NaN ELSE <<-p[1], p[2]>>

RSub(p, q) == RAdd(p, RNeg(q))

\* a * b, cancelling g1 = gcd(a[1], b[2]) and g2 = gcd(b[1], a[2]) before multiplying
MulOver(a, b, g1, g2) ==
    Rat((a[1] \div g1) * (b[1] \div g2), (a[2] \div g2) * (b[2] \div g1))

RMul(p, q) ==
    IF ~isFinite(p) \/ ~isFinite(q) THEN NaN
    ELSE MulOver(p, q, GCD(Abs(p[1]), q[2]), GCD(Abs(q[1]), p[2]))

\* x / 0 is Infinity or NaN
RDiv(p, q) ==
    IF ~isFinite(p) \/ ~isFinite(q) \/ q[1] = 0 THEN NaN
    ELSE IF q[1] < 0 THEN RMul(p, <<-q[2], -q[1]>>)
    ELSE RMul(p, <<q[2], q[1]>>)

RAbs(p) == IF ~isFinite(p) THEN NaN ELSE <<Abs(p[1]), p[2]>>

\* Comparisons with NaN are false, as in JavaScript.
RLt(p, q) == isFinite(p) /\ isFinite(q) /\ RSub(p, q)[1] < 0

RGt(p, q) == RLt(q, p)

RLe(p, q) == isFinite(p) /\ isFinite(q) /\ RSub(p, q)[1] <= 0

\* JavaScript truthiness of a number: 0, NaN and undefined are falsy.
Truthy(p) == isFinite(p) /\ p[1] # 0

\* Math.min / Math.max: NaN if an argument is NaN.
RMin2(p, q) == IF ~isFinite(p) \/ ~isFinite(q) THEN NaN ELSE IF RLt(q, p) THEN q ELSE p

RMax2(p, q) == IF ~isFinite(p) \/ ~isFinite(q) THEN NaN ELSE IF RLt(p, q) THEN q ELSE p

\* Math.sqrt, rounded down to the model's precision: sqrt(n/d) = sqrt(n*d)/d.
RECURSIVE ISqrtFrom(_, _)
ISqrtFrom(n, k) == IF (k + 1) * (k + 1) > n THEN k ELSE ISqrtFrom(n, k + 1)

RSqrt(p) ==
    IF ~isFinite(p) \/ p[1] < 0 THEN NaN ELSE Rat(ISqrtFrom(p[1] * p[2], 0), p[2])

RECURSIVE Pow2(_)
Pow2(k) == IF k = 0 THEN 1 ELSE 2 * Pow2(k - 1)

Square(p) == RMul(p, p)

(***************************************************************************)
(* MathUtils: coordinate conversion (math-utils.js).                       *)
(***************************************************************************)
\* 20037508.34 m is 180 units of one equatorial degree.
WEB_MERCATOR_MAX == 180

lonToWebMercatorX(lon) == RDiv(RMul(lon, Num(WEB_MERCATOR_MAX)), Num(180))

\* log(tan((90 + lat) * pi / 360)) / (pi / 180), linearised at lat = 0, is lat.
latToWebMercatorY(lat) == RDiv(RMul(lat, Num(WEB_MERCATOR_MAX)), Num(180))

webMercatorXToLon(x) == RDiv(RMul(x, Num(180)), Num(WEB_MERCATOR_MAX))

webMercatorYToLat(y) == RDiv(RMul(y, Num(180)), Num(WEB_MERCATOR_MAX))

\* 156543.03392 m/px = 2 * pi * EARTH_RADIUS / 256 = 360 / 256 units per pixel.
calculateMetersPerPixel(centerLat, zoomLevel) ==
    IF ~isFinite(centerLat) THEN NaN ELSE Rat(360, 256 * Pow2(zoomLevel))

\* Haversine distance, which for the model's small separations is the planar one.
calculateGpsDistance(lat1, lng1, lat2, lng2) ==
    RSqrt(RAdd(Square(RSub(lat2, lat1)), Square(RSub(lng2, lng1))))

\* imageBounds = <<southWest, northEast>>, each <<lat, lng>>.
convertImageCoordsToGps(imageX, imageY, imageBounds, imageWidth, imageHeight) ==
    IF imageBounds = Undef \/ ~Truthy(imageWidth) \/ ~Truthy(imageHeight) THEN Undef
    ELSE LET southWest == imageBounds[1]
             northEast == imageBounds[2]
             xRatio == RDiv(imageX, imageWidth)
             yRatio == RDiv(imageY, imageHeight)
             lng == RAdd(southWest[2], RMul(RSub(northEast[2], southWest[2]), xRatio))
             lat == RSub(northEast[1], RMul(RSub(northEast[1], southWest[1]), yRatio))
         IN  <<lat, lng>>

(***************************************************************************)
(* MathUtils: matrices (math-utils.js).  A matrix is a sequence of rows.   *)
(***************************************************************************)
\* An array built by map(): the elements are computed once, when it is built.
Array(f) == f \o << >>

\* row[colIndex]: undefined beyond the end of the row
ElementAt(row, colIndex) == IF colIndex \in DOMAIN row THEN row[colIndex] ELSE Undef

\* !matrix || !matrix.length || !matrix[0]: a first row is an array, and an
\* array is truthy even when it is empty
transposeFails(matrix) == matrix = Undef \/ Len(matrix) = 0

transpose(matrix) ==
    IF transposeFails(matrix) THEN Undef
    ELSE Array([colIndex \in 1..Len(matrix[1]) |->
                   Array([r \in 1..Len(matrix) |-> ElementAt(matrix[r], colIndex)])])

\* sum over k of a[i][k] * b[k][j], accumulated from 0
RECURSIVE MulCell(_, _, _, _, _)
MulCell(a, b, i, j, k) ==
    IF k = 0 THEN Num(0)
    ELSE RAdd(MulCell(a, b, i, j, k - 1), RMul(a[i][k], b[k][j]))

multiply(a, b) ==
    IF a = Undef \/ b = Undef \/ Len(a) = 0 \/ Len(b) = 0 \/ Len(a[1]) # Len(b) THEN Undef
    ELSE Array([i \in 1..Len(a) |->
            Array([j \in 1..Len(b[1]) |-> MulCell(a, b, i, j, Len(b))])])

RECURSIVE RowDot(_, _, _)
RowDot(row, vector, k) ==
    IF k = 0 THEN Num(0)
    ELSE RAdd(RowDot(row, vector, k - 1), RMul(row[k], vector[k]))

multiplyVector(matrix, vector) ==
    IF matrix = Undef \/ vector = Undef \/ Len(matrix[1]) # Len(vector) THEN Undef
    ELSE Array([i \in 1..Len(matrix) |-> RowDot(matrix[i], vector, Len(vector))])

\* The pivot search of gaussJordan: the first row k >= i with the largest |aug[k][i]|.
RECURSIVE MaxRowFrom(_, _, _, _, _)
MaxRowFrom(augmented, i, k, n, maxRow) ==
    IF k > n THEN maxRow
    ELSE MaxRowFrom(augmented, i, k + 1, n,
            IF RGt(RAbs(augmented[k][i]), RAbs(augmented[maxRow][i])) THEN k ELSE maxRow)

\* Math.abs(pivot) < 1e-10.  Every non-zero fraction of the model has a denominator
\* below 2^31 and so is at least 1e-10 in size: the test is a test for zero.
PivotTooSmall(pivot) == isFinite(pivot) /\ pivot[1] = 0

\* [augmented[i], augmented[maxRow]] = [augmented[maxRow], augmented[i]]
SwapRows(augmented, i, maxRow) ==
    Array([r \in 1..Len(augmented) |->
              IF r = i THEN augmented[maxRow]
              ELSE IF r = maxRow THEN augmented[i]
              ELSE augmented[r]])

\* augmented[i][j] /= pivot for j >= i
NormalizeRow(row, pivot, i) ==
    Array([j \in 1..Len(row) |-> IF j >= i THEN RDiv(row[j], pivot) ELSE row[j]])

\* augmented[k][j] -= augmented[k][i] * augmented[i][j] for k # i, j >= i
EliminateColumn(augmented, rowI, i) ==
    Array([k \in 1..Len(augmented) |->
              IF k = i THEN rowI
              ELSE Array([j \in 1..Len(rowI) |->
                      IF j >= i THEN RSub(augmented[k][j], RMul(augmented[k][i], rowI[j]))
                      ELSE augmented[k][j]])])

RECURSIVE GaussJordanFrom(_, _, _)
\* one iteration of the forward elimination, after the row exchange
GaussJordanStep(swapped, i, n) ==
    IF PivotTooSmall(swapped[i][i]) THEN Undef
    ELSE GaussJordanFrom(
            EliminateColumn(swapped, NormalizeRow(swapped[i], swapped[i][i], i), i),
            i + 1, n)

GaussJordanFrom(augmented, i, n) ==
    IF i > n THEN Array([r \in 1..n |-> augmented[r][n + 1]])
    ELSE GaussJordanStep(SwapRows(augmented, i, MaxRowFrom(augmented, i, i + 1, n, i)), i, n)

gaussJordan(A, B) ==
    IF A = Undef \/ B = Undef \/ Len(A) # Len(B) THEN Undef
    ELSE GaussJordanFrom(Array([r \in 1..Len(A) |-> Append(A[r], B[r])]), 1, Len(A))

(***************************************************************************)
(* MathUtils / AffineTransformation: the estimator (math-utils.js,         *)
(* affine-transformation.js).  A control point is a matched pair           *)
(* [pointJsonId, pointJson, gpsPoint].                                     *)
(***************************************************************************)
NoCoefficients == Undef

\* the rows A[2i], A[2i+1] and the entries B[2i], B[2i+1] of control point i
CoefficientMatrix(controlPoints) ==
    Array([r \in 1..(2 * Len(controlPoints)) |->
        IF r % 2 = 1
        THEN <<ToNumber(controlPoints[(r + 1) \div 2].pointJson.imageX),
               ToNumber(controlPoints[(r + 1) \div 2].pointJson.imageY),
               Num(1), Num(0), Num(0), Num(0)>>
        ELSE <<Num(0), Num(0), Num(0),
               ToNumber(controlPoints[(r + 1) \div 2].pointJson.imageX),
               ToNumber(controlPoints[(r + 1) \div 2].pointJson.imageY), Num(1)>>])

ConstantVector(controlPoints) ==
    Array([r \in 1..(2 * Len(controlPoints)) |->
        IF r % 2 = 1
        THEN lonToWebMercatorX(controlPoints[(r + 1) \div 2].gpsPoint.lng)
        ELSE latToWebMercatorY(controlPoints[(r + 1) \div 2].gpsPoint.lat)])

\* (A^T * A) * x = A^T * B
SolveNormalEquations(At, A, B) == gaussJordan(multiply(At, A), multiplyVector(At, B))

Coefficients(params) ==
    IF params = Undef THEN NoCoefficients
    ELSE [a |-> params[1], b |-> params[2], c |-> params[3],
          d |-> params[4], e |-> params[5], f |-> params[6]]

\* With no control point transpose fails and multiply throws: caught, null.
calculateAffineTransformation(controlPoints) ==
    IF Len(controlPoints) = 0 THEN NoCoefficients
    ELSE Coefficients(SolveNormalEquations(transpose(CoefficientMatrix(controlPoints)),
                                           CoefficientMatrix(controlPoints),
                                           ConstantVector(controlPoints)))

\* The transformation object of calculatePreciseTransformation; null is NoTransformation.
NoTransformation == [type |-> "none", transformation |-> NoCoefficients, controlPoints |-> << >>]

PreciseResult(transformation, controlPoints) ==
    IF transformation = NoCoefficients THEN NoTransformation
    ELSE [type |-> "precise", transformation |-> transformation,
          controlPoints |-> controlPoints]

calculatePreciseTransformation(controlPoints) ==
    IF Len(controlPoints) < 3 THEN NoTransformation
    ELSE PreciseResult(calculateAffineTransformation(controlPoints), controlPoints)

(***************************************************************************)
(* IEEE 754 binary64 arithmetic, for the one place where the rounding of   *)
(* the doubles decides what the program does: the pivot test of            *)
(* gaussJordan.  A finite double is <<sign, m, e>> and stands for          *)
(* sign * m * 2^e, with m a natural number of exactly 53 bits, or zero.    *)
(* A natural number of any size is the sequence of its digits to the base  *)
(* 2^15, lowest digit first, without leading zeros.  +, -, * and / round   *)
(* to nearest, ties to even; no value of the model leaves the normal range.*)
(***************************************************************************)
Base == 2^15

RECURSIVE BitsOf(_)
BitsOf(n) == IF n = 0 THEN 0 ELSE 1 + BitsOf(n \div 2)

\* the bits of one digit
DigitBits == BitsOf(Base - 1)

Digit(a, i) == IF i <= Len(a) THEN a[i] ELSE 0

RECURSIVE Trim(_)
Trim(a) ==
    IF a = << >> THEN a
    ELSE IF a[Len(a)] # 0 THEN a
    ELSE Trim(SubSeq(a, 1, Len(a) - 1))

RECURSIVE BigOf(_)
BigOf(n) == IF n = 0 THEN << >> ELSE <<n % Base>> \o BigOf(n \div Base)

RECURSIVE BigAddFrom(_, _, _, _)
BigAddFrom(a, b, i, carry) ==
    IF i > Len(a) /\ i > Len(b) THEN IF carry = 0 THEN << >> ELSE <<carry>>
    ELSE <<(Digit(a, i) + Digit(b, i) + carry) % Base>>
         \o BigAddFrom(a, b, i + 1, (Digit(a, i) + Digit(b, i) + carry) \div Base)

BigAdd(a, b) == Trim(BigAddFrom(a, b, 1, 0))

\* a - b for a >= b
RECURSIVE BigSubFrom(_, _, _, _)
BigSubFrom(a, b, i, borrow) ==
    IF i > Len(a) THEN << >>
    ELSE <<(Digit(a, i) - Digit(b, i) - borrow + Base) % Base>>
         \o BigSubFrom(a, b, i + 1, IF Digit(a, i) - Digit(b, i) - borrow < 0 THEN 1 ELSE 0)

BigSub(a, b) == Trim(BigSubFrom(a, b, 1, 0))

RECURSIVE BigLessFrom(_, _, _)
BigLessFrom(a, b, i) ==
    IF i = 0 THEN FALSE
    ELSE IF a[i] # b[i] THEN a[i] < b[i]
    ELSE BigLessFrom(a, b, i - 1)

BigLess(a, b) == IF Len(a) # Len(b) THEN Len(a) < Len(b) ELSE BigLessFrom(a, b, Len(a))

\* a * d + carry for one digit d
RECURSIVE BigTimesDigit(_, _, _, _)
BigTimesDigit(a, d, i, carry) ==
    IF i > Len(a) THEN IF carry = 0 THEN << >> ELSE <<carry>>
    ELSE <<(a[i] * d + carry) % Base>>
         \o BigTimesDigit(a, d, i + 1, (a[i] * d + carry) \div Base)

ShiftDigits(a, k) == [i \in 1..k |-> 0] \o a

RECURSIVE BigMulFrom(_, _, _)
BigMulFrom(a, b, j) ==
    IF j > Len(b) THEN << >>
    ELSE BigAddFrom(ShiftDigits(BigTimesDigit(a, b[j], 1, 0), j - 1),
                    BigMulFrom(a, b, j + 1), 1, 0)

BigMul(a, b) == Trim(BigMulFrom(a, b, 1))

\* 2 * a + bit
TwiceAnd(a, bit) == Trim(BigTimesDigit(a, 2, 1, bit))

\* a * 2^k
ShiftLeft(a, k) ==
    Trim(ShiftDigits(BigTimesDigit(a, Pow2(k % DigitBits), 1, 0), k \div DigitBits))

\* the digits of a \div d for one digit d, from digit i down
RECURSIVE BigDivDigitFrom(_, _, _, _)
BigDivDigitFrom(a, d, i, rem) ==
    IF i = 0 THEN << >>
    ELSE BigDivDigitFrom(a, d, i - 1, (rem * Base + a[i]) % d)
         \o <<(rem * Base + a[i]) \div d>>

DropDigits(a, k) == IF k >= Len(a) THEN << >> ELSE SubSeq(a, k + 1, Len(a))

DivDigit(a, d) == Trim(BigDivDigitFrom(a, d, Len(a), 0))

\* a \div 2^k
ShiftRight(a, k) == DivDigit(DropDigits(a, k \div DigitBits), Pow2(k % DigitBits))

BitLength(a) == IF a = << >> THEN 0 ELSE DigitBits * (Len(a) - 1) + BitsOf(a[Len(a)])

\* bit i of a, the lowest bit being bit 1
Bit(a, i) == (Digit(a, (i - 1) \div DigitBits + 1) \div Pow2((i - 1) % DigitBits)) % 2

\* the largest digit t with d * t <= r, settled one bit at a time from bit k down
RECURSIVE QuotientDigit(_, _, _, _)
QuotientDigit(d, r, k, t) ==
    IF k < 0 THEN t
    ELSE IF BigLess(r, Trim(BigTimesDigit(d, t + Pow2(k), 1, 0)))
    THEN QuotientDigit(d, r, k - 1, t)
    ELSE QuotientDigit(d, r, k - 1, t + Pow2(k))

\* <<n \div d, n % d>> by long division, digits i down to 1 of n still to come
RECURSIVE BigDivFrom(_, _, _, _, _)
RECURSIVE BigDivDigit(_, _, _, _, _)
\* the test makes the digit known before the division goes on
BigDivTake(n, d, i, q, r, t) ==
    IF t < 0 THEN << >>
    ELSE BigDivFrom(n, d, i - 1, <<t>> \o q, BigSub(r, Trim(BigTimesDigit(d, t, 1, 0))))

BigDivDigit(n, d, i, q, r) == BigDivTake(n, d, i, q, r, QuotientDigit(d, r, DigitBits - 1, 0))

BigDivFrom(n, d, i, q, rem) ==
    IF i = 0 THEN <<Trim(q), rem>> ELSE BigDivDigit(n, d, i, q, Trim(<<n[i]>> \o rem))

BigDiv(n, d) == BigDivFrom(n, d, Len(n), << >>, << >>)

Zero64 == <<1, << >>, 0>>

\* q + 1 in 53 bits
RoundedUp(sign, up, e) ==
    IF BitLength(up) > 53 THEN <<sign, ShiftRight(up, 1), e + 1>> ELSE <<sign, up, e>>

\* q and the bits r cut off below it: up if r is above the half, or at the half with q odd
Nearest(sign, q, r, half, e) ==
    IF BigLess(half, r) \/ (r = half /\ q[1] % 2 = 1)
    THEN RoundedUp(sign, BigAdd(q, <<1>>), e)
    ELSE <<sign, q, e>>

\* the bits of n below its leading 53, cut is the number of them
CutTo53(sign, n, e, cut, q) ==
    Nearest(sign, q, BigSub(n, ShiftLeft(q, cut)), ShiftLeft(<<1>>, cut - 1), e + cut)

\* the double nearest to sign * n * 2^e
Round64(sign, n, e, bits) ==
    IF bits = 0 THEN Zero64
    ELSE IF bits <= 53 THEN <<sign, ShiftLeft(n, 53 - bits), e - (53 - bits)>>
    ELSE CutTo53(sign, n, e, bits - 53, ShiftRight(n, bits - 53))

Float64(sign, n, e) == Round64(sign, n, e, BitLength(n))

FromInt(n) == Float64(IF n < 0 THEN -1 ELSE 1, BigOf(Abs(n)), 0)

IsZero64(x) == x[2] = << >>

\* the sum of two doubles of magnitudes nx * 2^e and ny * 2^e
AddAligned(sx, nx, sy, ny, e) ==
    IF sx = sy THEN Float64(sx, BigAdd(nx, ny), e)
    ELSE IF BigLess(nx, ny) THEN Float64(sy, BigSub(ny, nx), e)
    ELSE Float64(sx, BigSub(nx, ny), e)

AddAt(x, y, e) == AddAligned(x[1], ShiftLeft(x[2], x[3] - e), y[1], ShiftLeft(y[2], y[3] - e), e)

Add64(x, y) ==
    IF IsZero64(x) THEN y
    ELSE IF IsZero64(y) THEN x
    ELSE AddAt(x, y, IF x[3] < y[3] THEN x[3] ELSE y[3])

Neg64(x) == IF IsZero64(x) THEN x ELSE <<-x[1], x[2], x[3]>>

Sub64(x, y) == Add64(x, Neg64(y))

Mul64(x, y) ==
    IF IsZero64(x) \/ IsZero64(y) THEN Zero64
    ELSE Float64(x[1] * y[1], BigMul(x[2], y[2]), x[3] + y[3])

\* the quotient to 55 bits or more, and one more bit that says whether anything remains
Quotient64(sign, qr, e) == Float64(sign, TwiceAnd(qr[1], IF qr[2] = << >> THEN 0 ELSE 1), e - 1)

\* x / y for y # 0
Div64(x, y) ==
    IF IsZero64(x) THEN Zero64
    ELSE Quotient64(x[1] * y[1], BigDiv(ShiftLeft(x[2], 55), y[2]),
                    x[3] - y[3] - 55)

\* Math.abs(x) < Math.abs(y)
AbsLess64(x, y) ==
    IF IsZero64(y) THEN FALSE
    ELSE IF IsZero64(x) THEN TRUE
    ELSE IF x[3] # y[3] THEN x[3] < y[3]
    ELSE BigLess(x[2], y[2])

\* the literal 1e-10
Tiny64 == Div64(FromInt(1), Mul64(FromInt(100000), FromInt(100000)))

(***************************************************************************)
(* The estimator as the doubles compute it.  The image coordinates and the *)
(* sums of their products are whole numbers that a double holds exactly;   *)
(* the quotients and the differences of the elimination are rounded.       *)
(***************************************************************************)
\* a number read from a document: the double nearest to the fraction
ToFloat64(p) == Div64(FromInt(p[1]), FromInt(p[2]))

Matrix64(matrix) ==
    Array([r \in 1..Len(matrix) |->
              Array([c \in 1..Len(matrix[r]) |-> ToFloat64(matrix[r][c])])])

Vector64(vector) == Array([r \in 1..Len(vector) |-> ToFloat64(vector[r])])

\* result[i][j] += a[i][k] * b[k][j], from 0
RECURSIVE MulCell64(_, _, _, _, _)
MulCell64(a, b, i, j, k) ==
    IF k = 0 THEN Zero64
    ELSE Add64(MulCell64(a, b, i, j, k - 1), Mul64(a[i][k], b[k][j]))

multiply64(a, b) ==
    Array([i \in 1..Len(a) |->
              Array([j \in 1..Len(b[1]) |-> MulCell64(a, b, i, j, Len(b))])])

RECURSIVE RowDot64(_, _, _)
RowDot64(row, vector, k) ==
    IF k = 0 THEN Zero64
    ELSE Add64(RowDot64(row, vector, k - 1), Mul64(row[k], vector[k]))

multiplyVector64(matrix, vector) ==
    Array([i \in 1..Len(matrix) |-> RowDot64(matrix[i], vector, Len(vector))])

RECURSIVE MaxRow64From(_, _, _, _, _)
MaxRow64From(augmented, i, k, n, maxRow) ==
    IF k > n THEN maxRow
    ELSE MaxRow64From(augmented, i, k + 1, n,
            IF AbsLess64(augmented[maxRow][i], augmented[k][i]) THEN k ELSE maxRow)

\* Math.abs(augmented[i][i]) < 1e-10
PivotTooSmall64(pivot) == AbsLess64(pivot, Tiny64)

NormalizeRow64(row, pivot, i) ==
    Array([j \in 1..Len(row) |-> IF j >= i THEN Div64(row[j], pivot) ELSE row[j]])

EliminateColumn64(augmented, rowI, i) ==
    Array([k \in 1..Len(augmented) |->
              IF k = i THEN rowI
              ELSE Array([j \in 1..Len(rowI) |->
                      IF j >= i
                      THEN Sub64(augmented[k][j], Mul64(augmented[k][i], rowI[j]))
                      ELSE augmented[k][j]])])

RECURSIVE GaussJordan64From(_, _, _)
GaussJordan64Step(swapped, i, n) ==
    IF PivotTooSmall64(swapped[i][i]) THEN Undef
    ELSE GaussJordan64From(
            EliminateColumn64(swapped, NormalizeRow64(swapped[i], swapped[i][i], i), i),
            i + 1, n)

GaussJordan64From(augmented, i, n) ==
    IF i > n THEN Array([r \in 1..n |-> augmented[r][n + 1]])
    ELSE GaussJordan64Step(SwapRows(augmented, i, MaxRow64From(augmented, i, i + 1, n, i)),
                           i, n)

gaussJordan64(A, B) ==
    IF A = Undef \/ B = Undef \/ Len(A) # Len(B) THEN Undef
    ELSE GaussJordan64From(Array([r \in 1..Len(A) |-> Append(A[r], B[r])]), 1, Len(A))

SolveNormalEquations64(At, A, B) ==
    gaussJordan64(multiply64(At, A), multiplyVector64(At, B))

calculateAffineTransformation64(controlPoints) ==
    Coefficients(SolveNormalEquations64(
        Matrix64(transpose(CoefficientMatrix(controlPoints))),
        Matrix64(CoefficientMatrix(controlPoints)),
        Vector64(ConstantVector(controlPoints))))

calculatePreciseTransformation64(controlPoints) ==
    IF Len(controlPoints) < 3 THEN NoTransformation
    ELSE PreciseResult(calculateAffineTransformation64(controlPoints), controlPoints)

\* Returns <<lat, lng>>, or Undef for null.
applyAffineTransform(imageX, imageY, transformation) ==
    IF transformation = NoTransformation \/ transformation.transformation = NoCoefficients
    THEN Undef
    ELSE LET trans == transformation.transformation
             webMercatorX == RAdd(RAdd(RMul(trans.a, imageX), RMul(trans.b, imageY)), trans.c)
             webMercatorY == RAdd(RAdd(RMul(trans.d, imageX), RMul(trans.e, imageY)), trans.f)
         IN  <<webMercatorYToLat(webMercatorY), webMercatorXToLon(webMercatorX)>>

(***************************************************************************)
(* The program state.                                                      *)
(***************************************************************************)
VARIABLES
    mapView,                  \* Leaflet map: [lat, lng, zoom] of the current view
    markers,                  \* Leaflet markers by identity: [latlng, onMap, created, meta]
    currentImage,             \* ImageOverlay.currentImage: [src, width, height]
    imageOverlay,             \* ImageOverlay.imageOverlay: Undef, or the layer's bounds <<sw, ne>>
    imageUpdateCallbacks,     \* ImageOverlay.imageUpdateCallbacks
    transformedCenter,        \* ImageOverlay.transformedCenter
    currentScale,             \* ImageOverlay.currentScale
    gpsPoints,                \* GPSData.gpsPoints
    gpsMarkers,               \* GPSData.gpsMarkers
    pointJsonData,            \* Georeferencing.pointJsonData
    currentTransformation,    \* Georeferencing.currentTransformation
    imageCoordinateMarkers,   \* Georeferencing.imageCoordinateMarkers
    imageUpdateCallbackRegistered, \* Georeferencing.imageUpdateCallbackRegistered
    appImageCoordinateMarkers, \* GeoReferencerApp.imageCoordinateMarkers
    routeData,                \* RouteSpotHandler.routeData
    spotData,                 \* RouteSpotHandler.spotData
    routeMarkers,             \* RouteSpotHandler.routeMarkers
    spotMarkers,              \* RouteSpotHandler.spotMarkers
    multiLoad,                \* handleMultiJsonLoad suspended at `await file.text()`
    imageLoad,                \* loadImage waiting for its 100 ms timer
    steps,                    \* handler steps taken in this session
    obs,                      \* what the last handler step did (observation only)
    call,                     \* a method called on its own: its name and arguments
    returned                  \* what that call returned; << >> before it returns

MaxSteps == 5        \* handler steps in one session

vars == <<mapView, markers, currentImage, imageOverlay, imageUpdateCallbacks,
          transformedCenter, currentScale, gpsPoints, gpsMarkers, pointJsonData,
          currentTransformation, imageCoordinateMarkers, imageUpdateCallbackRegistered,
          appImageCoordinateMarkers, routeData, spotData, routeMarkers, spotMarkers,
          multiLoad, imageLoad, steps, obs, call, returned>>

\* The state as one record, on which the methods below operate.
State ==
    [mapView |-> mapView, markers |-> markers, currentImage |-> currentImage,
     imageOverlay |-> imageOverlay, imageUpdateCallbacks |-> imageUpdateCallbacks,
     transformedCenter |-> transformedCenter, currentScale |-> currentScale,
     gpsPoints |-> gpsPoints, gpsMarkers |-> gpsMarkers, pointJsonData |-> pointJsonData,
     currentTransformation |-> currentTransformation,
     imageCoordinateMarkers |-> imageCoordinateMarkers,
     imageUpdateCallbackRegistered |-> imageUpdateCallbackRegistered,
     appImageCoordinateMarkers |-> appImageCoordinateMarkers,
     routeData |-> routeData, spotData |-> spotData,
     routeMarkers |-> routeMarkers, spotMarkers |-> spotMarkers,
     multiLoad |-> multiLoad, imageLoad |-> imageLoad, obs |-> obs]

\* the fields of the program become those of s
Assign(s) ==
    /\ mapView' = s.mapView
    /\ markers' = s.markers
    /\ currentImage' = s.currentImage
    /\ imageOverlay' = s.imageOverlay
    /\ imageUpdateCallbacks' = s.imageUpdateCallbacks
    /\ transformedCenter' = s.transformedCenter
    /\ currentScale' = s.currentScale
    /\ gpsPoints' = s.gpsPoints
    /\ gpsMarkers' = s.gpsMarkers
    /\ pointJsonData' = s.pointJsonData
    /\ currentTransformation' = s.currentTransformation
    /\ imageCoordinateMarkers' = s.imageCoordinateMarkers
    /\ imageUpdateCallbackRegistered' = s.imageUpdateCallbackRegistered
    /\ appImageCoordinateMarkers' = s.appImageCoordinateMarkers
    /\ routeData' = s.routeData
    /\ spotData' = s.spotData
    /\ routeMarkers' = s.routeMarkers
    /\ spotMarkers' = s.spotMarkers
    /\ multiLoad' = s.multiLoad
    /\ imageLoad' = s.imageLoad
    /\ obs' = s.obs
    /\ UNCHANGED <<call, returned>>

\* a handler step
Commit(s) ==
    /\ steps < MaxSteps
    /\ steps' = steps + 1
    /\ Assign(s)

\* obs: the handler step just taken, its outcome, and how often it notified / synchronised.
NoObs ==
    [result |-> "", notifications |-> 0, callbackRuns |-> 0,
     pointPasses |-> 0, routeSpotPasses |-> 0, matched |-> 0, solvable |-> TRUE,
     overlapped |-> FALSE, features |-> 0]

\* no method is being called on its own
NoCall == [method |-> ""]

(***************************************************************************)
(* Leaflet markers.                                                        *)
(***************************************************************************)
NoMeta == [origin |-> "", imageX |-> Undef, imageY |-> Undef, routeId |-> "", spotId |-> ""]

\* L.marker(latLng).addTo(map): a new marker object; its identity is its index.
addMarker(s, latLng, meta) ==
    [s EXCEPT !.markers = Append(@, [latlng |-> latLng, onMap |-> TRUE,
                                     created |-> latLng, meta |-> meta])]

newestMarker(s) == Len(s.markers)

setLatLng(s, marker, latLng) == [s EXCEPT !.markers[marker].latlng = latLng]

removeLayer(s, marker) == [s EXCEPT !.markers[marker].onMap = FALSE]

(***************************************************************************)
(* CoordinateDisplay.convertImageToLatLng (coordinate-display.js).         *)
(***************************************************************************)
\* DEFAULTS.MAP_CENTER and MAP_ZOOM: the view the map opens with.
InitialView == [lat |-> Num(34), lng |-> Num(135), zoom |-> 15]

getInitialCenter == <<InitialView.lat, InitialView.lng>>

\* center + ((image - 500) / 1000) * 0.01
FallbackLatLng(imageX, imageY) ==
    LET normalizedX == RDiv(RSub(imageX, Num(500)), Num(1000))
        normalizedY == RDiv(RSub(imageY, Num(500)), Num(1000))
    IN  <<RAdd(getInitialCenter[1], RMul(normalizedY, Rat(1, 100))),
          RAdd(getInitialCenter[2], RMul(normalizedX, Rat(1, 100)))>>

convertImageToLatLng(s, imageX, imageY) ==
    IF s.imageOverlay = Undef \/ ~Truthy(s.currentImage.width)
       \/ ~Truthy(s.currentImage.height)
    THEN FallbackLatLng(imageX, imageY)
    ELSE convertImageCoordsToGps(imageX, imageY, s.imageOverlay,
                                 s.currentImage.width, s.currentImage.height)

(***************************************************************************)
(* Georeferencing: position synchronisation (georeferencing.js).           *)
(***************************************************************************)
hasImageXY(e) == e.imageX # Undef /\ e.imageY # Undef

\* With no transformation `transformation.type` throws; the catch returns null.
transformImageCoordsToGps(imageX, imageY, transformation) ==
    IF transformation = NoTransformation THEN Undef
    ELSE IF transformation.type = "precise"
    THEN applyAffineTransform(imageX, imageY, transformation)
    ELSE Undef

\* if (newLatLng) marker.setLatLng(newLatLng)
MoveIfComputed(s, marker, newLatLng) ==
    IF newLatLng # Undef THEN setLatLng(s, marker, newLatLng) ELSE s

\* The body of updateMarkerPositions' forEach for one registry entry.
UpdateOneMarker(s, markerInfo, useTransformation) ==
    IF markerInfo.type # "georeference-point" \/ ~hasImageXY(markerInfo.data) THEN s
    ELSE MoveIfComputed(s, markerInfo.marker,
            IF useTransformation /\ s.currentTransformation # NoTransformation
            THEN transformImageCoordsToGps(markerInfo.data.imageX, markerInfo.data.imageY,
                                           s.currentTransformation)
            ELSE convertImageToLatLng(s, markerInfo.data.imageX, markerInfo.data.imageY))

RECURSIVE UpdateMarkersFrom(_, _, _)
UpdateMarkersFrom(s, useTransformation, k) ==
    IF k > Len(s.imageCoordinateMarkers) THEN s
    ELSE UpdateMarkersFrom(
            UpdateOneMarker(s, s.imageCoordinateMarkers[k], useTransformation),
            useTransformation, k + 1)

updateMarkerPositions(s, useTransformation) ==
    UpdateMarkersFrom([s EXCEPT !.obs.pointPasses = @ + 1], useTransformation, 1)

syncPointPositionsBasedOnImageBounds(s) == updateMarkerPositions(s, FALSE)

\* updateMarkerPositions(true) runs with a transformation stored, and
\* updateMarkerPositions(false) without one: the flag is the stored state.
syncPointPositions(s) == updateMarkerPositions(s, s.currentTransformation # NoTransformation)

\* A forEach body without the origin test: every marker is given the transformed
\* position of whatever image coordinates its meta carries.
SyncAnyMarker(s, marker) ==
    MoveIfComputed(s, marker,
        transformImageCoordsToGps(s.markers[marker].meta.imageX,
                                  s.markers[marker].meta.imageY,
                                  s.currentTransformation))

\* A forEach body that takes the marker's displayed position for its image
\* coordinates.
SyncFromPosition(s, marker) ==
    IF s.markers[marker].meta.origin = "image" /\ hasImageXY(s.markers[marker].meta)
    THEN MoveIfComputed(s, marker,
            transformImageCoordsToGps(s.markers[marker].latlng[2],
                                      s.markers[marker].latlng[1],
                                      s.currentTransformation))
    ELSE s

\* The body of syncRouteMarkers' / syncSpotMarkers' forEach for one marker.  Every
\* element of routeMarkers and spotMarkers is a marker (no polyline is ever pushed).
SyncOneMarker(s, marker) ==
    IF s.markers[marker].meta.origin = "image" /\ hasImageXY(s.markers[marker].meta)
    THEN MoveIfComputed(s, marker,
            transformImageCoordsToGps(s.markers[marker].meta.imageX,
                                      s.markers[marker].meta.imageY,
                                      s.currentTransformation))
    ELSE s   \* GPS origin: not moved

\* A loop that an entity without a computed position ends.
RECURSIVE SyncMarkersUntilBad(_, _, _)
SyncMarkersUntilBad(s, list, k) ==
    IF k > Len(list) THEN s
    ELSE IF SyncOneMarker(s, list[k]) = s THEN s
    ELSE SyncMarkersUntilBad(SyncOneMarker(s, list[k]), list, k + 1)

RECURSIVE SyncMarkersFrom(_, _, _)
SyncMarkersFrom(s, list, k) ==
    IF k > Len(list) THEN s
    ELSE SyncMarkersFrom(SyncOneMarker(s, list[k]), list, k + 1)

syncRouteMarkers(s) == SyncMarkersFrom(s, s.routeMarkers, 1)

syncSpotMarkers(s) == SyncMarkersFrom(s, s.spotMarkers, 1)

\* A pass that leaves the spot list out.
SyncRouteMarkersOnly(s) == syncRouteMarkers([s EXCEPT !.obs.routeSpotPasses = @ + 1])

\* Each list is synchronised when it is non-empty; over an empty list the loop
\* does nothing.
syncRouteSpotPositions(s) ==
    syncSpotMarkers(syncRouteMarkers([s EXCEPT !.obs.routeSpotPasses = @ + 1]))

\* The callback performGeoreferencingCalculations registers.
SyncCallback(s) ==
    syncRouteSpotPositions(syncPointPositions([s EXCEPT !.obs.callbackRuns = @ + 1]))

(***************************************************************************)
(* ImageOverlay (image-overlay.js).                                        *)
(***************************************************************************)
\* DEFAULTS.IMAGE_OVERLAY_DEFAULT_SCALE = 0.8
getDefaultScale == Rat(4, 5)

getCurrentScale(s) == IF Truthy(s.currentScale) THEN s.currentScale ELSE getDefaultScale

RECURSIVE RunCallbacksFrom(_, _)
RunCallbacksFrom(s, k) ==
    IF k > Len(s.imageUpdateCallbacks) THEN s
    ELSE RunCallbacksFrom(SyncCallback(s), k + 1)

notifyImageUpdate(s) == RunCallbacksFrom([s EXCEPT !.obs.notifications = @ + 1], 1)

\* [center - offset, center + offset].  In the model's unit
\* (x / earthRadius) * (180 / pi) is x, and cosLat is 1.
BoundsAround(centerPos, latOffset, lngOffset) ==
    IF ~isFinite(latOffset) \/ ~isFinite(lngOffset) THEN Undef
    ELSE IF ~isFinite(RSub(centerPos[1], latOffset)) \/ ~isFinite(RSub(centerPos[2], lngOffset))
    THEN Undef
    ELSE <<<<RSub(centerPos[1], latOffset), RSub(centerPos[2], lngOffset)>>,
           <<RAdd(centerPos[1], latOffset), RAdd(centerPos[2], lngOffset)>>>>

\* The bounds for an image of the given size at a scale, or Undef when an
\* intermediate value is rejected by the finiteness guards.
BoundsAtResolution(centerPos, imageWidth, imageHeight, scale, metersPerPixel) ==
    IF ~isFinite(metersPerPixel) \/ RLe(metersPerPixel, Num(0)) THEN Undef
    ELSE BoundsAround(centerPos,
                      RDiv(RMul(RMul(imageHeight, scale), metersPerPixel), Num(2)),
                      RDiv(RMul(RMul(imageWidth, scale), metersPerPixel), Num(2)))

PlacementBounds(centerPos, imageWidth, imageHeight, scale, zoom) ==
    BoundsAtResolution(centerPos, imageWidth, imageHeight, scale,
                       calculateMetersPerPixel(centerPos[1], zoom))

MapCenter(s) == <<s.mapView.lat, s.mapView.lng>>

\* imageOverlay.setBounds(bounds); notifyImageUpdate() -- or return, without bounds
SetBoundsAndNotify(s, bounds) ==
    IF bounds = Undef THEN s ELSE notifyImageUpdate([s EXCEPT !.imageOverlay = bounds])

updateImageDisplay(s) ==
    IF s.imageOverlay = Undef \/ ~s.currentImage.src THEN s
    ELSE IF ~Truthy(s.currentImage.width) \/ ~Truthy(s.currentImage.height)
            \/ RLe(s.currentImage.width, Num(0)) \/ RLe(s.currentImage.height, Num(0))
    THEN s
    ELSE SetBoundsAndNotify(s,
            PlacementBounds(IF s.transformedCenter # Undef THEN s.transformedCenter
                            ELSE MapCenter(s),
                            s.currentImage.width, s.currentImage.height,
                            getCurrentScale(s), s.mapView.zoom))

\* this.currentScale = scale; if (this.imageOverlay) this.updateImageDisplay().
\* Without an overlay updateImageDisplay returns at once.
setCurrentScale(s, scale) == updateImageDisplay([s EXCEPT !.currentScale = scale])

\* setTransformedPosition after setCurrentScale: the bounds are set directly when
\* they can be computed, else the fallback is updateImageDisplay
PlaceDirectly(s, bounds) ==
    IF s.imageOverlay # Undef /\ s.currentImage.src /\ Truthy(s.currentImage.width)
       /\ Truthy(s.currentImage.height) /\ bounds # Undef
    THEN notifyImageUpdate([s EXCEPT !.imageOverlay = bounds])
    ELSE updateImageDisplay(s)

setTransformedPosition(s, centerLat, centerLng, scale) ==
    PlaceDirectly(
        setCurrentScale([s EXCEPT !.transformedCenter = <<centerLat, centerLng>>], scale),
        PlacementBounds(<<centerLat, centerLng>>, s.currentImage.width,
                        s.currentImage.height, scale, s.mapView.zoom))

getInitialBounds(s) ==
    <<<<RSub(s.mapView.lat, Rat(1, 1000)), RSub(s.mapView.lng, Rat(1, 1000))>>,
      <<RAdd(s.mapView.lat, Rat(1, 1000)), RAdd(s.mapView.lng, Rat(1, 1000))>>>>

(***************************************************************************)
(* Georeferencing: matching and the estimation run (georeferencing.js).    *)
(***************************************************************************)
\* the fallback taken in the order id, Id, name
FirstOfIdFirst(a, b, c) == IF b # "" THEN b ELSE IF a # "" THEN a ELSE c

\* a || b || c on strings: the first non-empty one
FirstOf(a, b, c) == IF a # "" THEN a ELSE IF b # "" THEN b ELSE c

\* a lookup that settles for the last point of the list whatever its id
RECURSIVE GpsLookupLoose(_, _, _)
GpsLookupLoose(points, id, k) ==
    IF k = 0 THEN Undef
    ELSE IF points[k].pointId = id \/ k = Len(points) THEN <<points[k]>>
    ELSE GpsLookupLoose(points, id, k - 1)

\* gpsPointMap.get(id): Map.set keeps the last point of an id.  Undef for no entry.
RECURSIVE GpsLookupFrom(_, _, _)
GpsLookupFrom(points, id, k) ==
    IF k = 0 THEN Undef
    ELSE IF points[k].pointId = id THEN <<points[k]>>
    ELSE GpsLookupFrom(points, id, k - 1)

NoMatch == [matchedPairs |-> << >>, unmatchedPointJsonIds |-> << >>, totalPointJsons |-> 0]

\* a matching pass that puts each entity's entry in front of the earlier ones
RECURSIVE MatchFromBackwards(_, _, _, _)
MatchFromBackwards(pointJsonArray, points, k, acc) ==
    IF k > Len(pointJsonArray) THEN acc
    ELSE LET pointJson == pointJsonArray[k]
             pointJsonId == FirstOf(pointJson.Id, pointJson.id, pointJson.name)
             matchingGpsPoint == GpsLookupFrom(points, pointJsonId, Len(points))
         IN  MatchFromBackwards(pointJsonArray, points, k + 1,
                IF pointJsonId = ""
                THEN [acc EXCEPT !.unmatchedPointJsonIds =
                        <<"[" \o ToString(k - 1) \o "] (no id)">> \o @]
                ELSE IF matchingGpsPoint # Undef
                THEN [acc EXCEPT !.matchedPairs =
                        <<[pointJsonId |-> pointJsonId, pointJson |-> pointJson,
                           gpsPoint |-> matchingGpsPoint[1]]>> \o @]
                ELSE [acc EXCEPT !.unmatchedPointJsonIds = <<pointJsonId>> \o @])

RECURSIVE MatchFrom(_, _, _, _)
MatchFrom(pointJsonArray, points, k, acc) ==
    IF k > Len(pointJsonArray) THEN acc
    ELSE LET pointJson == pointJsonArray[k]
             pointJsonId == FirstOf(pointJson.Id, pointJson.id, pointJson.name)
             matchingGpsPoint == GpsLookupFrom(points, pointJsonId, Len(points))
         IN  MatchFrom(pointJsonArray, points, k + 1,
                IF pointJsonId = ""
                THEN [acc EXCEPT !.unmatchedPointJsonIds =
                        Append(@, "[" \o ToString(k - 1) \o "] (no id)")]
                ELSE IF matchingGpsPoint # Undef
                THEN [acc EXCEPT !.matchedPairs =
                        Append(@, [pointJsonId |-> pointJsonId, pointJson |-> pointJson,
                                   gpsPoint |-> matchingGpsPoint[1]])]
                ELSE [acc EXCEPT !.unmatchedPointJsonIds = Append(@, pointJsonId)])

\* pointJsonData is Undef or a document {points: [...]}.
matchPointJsonWithGPS(s, points) ==
    IF s.pointJsonData = Undef THEN NoMatch
    ELSE LET pointJsonArray == s.pointJsonData[1].points
         IN  MatchFrom(pointJsonArray, points, 1,
                       [NoMatch EXCEPT !.totalPointJsons = Len(pointJsonArray)])

\* averageScale / metersPerPixelAtCenter
FallbackScale(t, metersPerPixelAtCenter) ==
    RDiv(RDiv(RAdd(RSqrt(RAdd(Square(t.a), Square(t.d))),
                   RSqrt(RAdd(Square(t.b), Square(t.e)))), Num(2)),
         metersPerPixelAtCenter)

ScaleFromDistances(imageDistance, gpsDistance, t, metersPerPixelAtCenter) ==
    IF RGt(imageDistance, Num(0)) /\ RGt(gpsDistance, Num(0))
    THEN RDiv(RDiv(gpsDistance, imageDistance), metersPerPixelAtCenter)
    ELSE FallbackScale(t, metersPerPixelAtCenter)

ScaleFromControlPoints(point1, point2, t, metersPerPixelAtCenter) ==
    ScaleFromDistances(
        RSqrt(RAdd(Square(RSub(point2.pointJson.imageX, point1.pointJson.imageX)),
                   Square(RSub(point2.pointJson.imageY, point1.pointJson.imageY)))),
        calculateGpsDistance(point1.gpsPoint.lat, point1.gpsPoint.lng,
                             point2.gpsPoint.lat, point2.gpsPoint.lng),
        t, metersPerPixelAtCenter)

\* A stored transformation has at least three control points, so the fallback is
\* taken only for coincident points.
calculateScaleFromTransformation(s, transformation) ==
    ScaleFromControlPoints(transformation.controlPoints[1], transformation.controlPoints[2],
                           transformation.transformation,
                           calculateMetersPerPixel(s.mapView.lat, s.mapView.zoom))

\* Its own loop over the georeference-point markers, then syncPointPositions.
updatePointJsonMarkersAfterTransformation(s) ==
    IF s.currentTransformation = NoTransformation \/ Len(s.imageCoordinateMarkers) = 0
    THEN s
    ELSE syncPointPositions(updateMarkerPositions(s, TRUE))

\* Math.min(...values) and Math.max(...values) of four values
Min4(v) == RMin2(RMin2(v[1], v[2]), RMin2(v[3], v[4]))

Max4(v) == RMax2(RMax2(v[1], v[2]), RMax2(v[3], v[4]))

\* the image centre, from the four transformed corners
CenterOf(transformedCorners) ==
    <<RDiv(RAdd(Min4([i \in 1..4 |-> transformedCorners[i][1]]),
                Max4([i \in 1..4 |-> transformedCorners[i][1]])), Num(2)),
      RDiv(RAdd(Min4([i \in 1..4 |-> transformedCorners[i][2]]),
                Max4([i \in 1..4 |-> transformedCorners[i][2]])), Num(2))>>

TransformedCorners(imageWidth, imageHeight, transformation) ==
    [i \in 1..4 |->
        applyAffineTransform(IF i \in {2, 3} THEN imageWidth ELSE Num(0),
                             IF i \in {3, 4} THEN imageHeight ELSE Num(0),
                             transformation)]

PlaceAndUpdate(s, center, scale) ==
    updatePointJsonMarkersAfterTransformation(
        setTransformedPosition(s, center[1], center[2], scale))

applyPreciseTransformation(s, transformation) ==
    PlaceAndUpdate([s EXCEPT !.currentTransformation = transformation],
                   CenterOf(TransformedCorners(s.currentImage.width, s.currentImage.height,
                                               transformation)),
                   calculateScaleFromTransformation(s, transformation))

applyTransformationToImage(s, transformation) ==
    IF transformation.type = "precise" THEN applyPreciseTransformation(s, transformation)
    ELSE s

ApplyIfSolved(s, transformation) ==
    IF transformation # NoTransformation
    THEN syncRouteSpotPositions(applyTransformationToImage(s, transformation))
    ELSE [s EXCEPT !.obs.solvable = FALSE]   \* logger.warn only

performAutomaticGeoreferencing(s, matchedPairs) ==
    ApplyIfSolved(s, calculatePreciseTransformation(matchedPairs))

addImageUpdateCallback(s, callback) ==
    [s EXCEPT !.imageUpdateCallbacks = Append(@, callback)]

\* The registration without its flag test.
RegisterCallbackAlways(s) ==
    [addImageUpdateCallback(s, "sync") EXCEPT !.imageUpdateCallbackRegistered = TRUE]

\* if (!this.imageUpdateCallbackRegistered) { addImageUpdateCallback(...); flag = true }
RegisterCallbackOnce(s) ==
    IF ~s.imageUpdateCallbackRegistered
    THEN [addImageUpdateCallback(s, "sync") EXCEPT !.imageUpdateCallbackRegistered = TRUE]
    ELSE s

\* The run with its threshold at two pairs.
CalculateWithTwo(s, matchResult) ==
    IF Len(matchResult.matchedPairs) >= 2
    THEN [RegisterCallbackOnce(
              performAutomaticGeoreferencing(
                  [s EXCEPT !.obs.matched = Len(matchResult.matchedPairs)],
                  matchResult.matchedPairs))
            EXCEPT !.obs.result = "completed"]
    ELSE [s EXCEPT !.obs.matched = Len(matchResult.matchedPairs), !.obs.result = "error"]

\* obs.result: "completed" for the returned result object, "error" for a throw.
CalculateWith(s, matchResult) ==
    IF Len(matchResult.matchedPairs) >= 3
    THEN [RegisterCallbackOnce(
              performAutomaticGeoreferencing(
                  [s EXCEPT !.obs.matched = Len(matchResult.matchedPairs)],
                  matchResult.matchedPairs))
            EXCEPT !.obs.result = "completed"]
    ELSE [s EXCEPT !.obs.matched = Len(matchResult.matchedPairs), !.obs.result = "error"]

performGeoreferencingCalculations(s) ==
    CalculateWith(s, matchPointJsonWithGPS(s, s.gpsPoints))

\* TRUE when executeGeoreferencing throws before it calls updateImageDisplay.
ExecuteThrows(s) ==
    \/ ~Truthy(s.currentImage.width) \/ ~Truthy(s.currentImage.height)
    \/ RLe(s.currentImage.width, Num(0)) \/ RLe(s.currentImage.height, Num(0))
    \/ PlacementBounds(MapCenter(s), s.currentImage.width, s.currentImage.height,
                       getCurrentScale(s), s.mapView.zoom) = Undef

executeGeoreferencing(s) == updateImageDisplay(s)

(***************************************************************************)
(* Loaded documents.  An entity (point, route point, spot) is a record     *)
(* [Id, id, name, type, imageX, imageY, lat, lng]; an absent string field  *)
(* is "", an absent number is Undef.  A document is a record               *)
(* [fileName, id, name, routeInfo, points, spots].                         *)
(***************************************************************************)
Entity(id, type, imageX, imageY, lat, lng) ==
    [Id |-> "", id |-> id, name |-> "", type |-> type,
     imageX |-> imageX, imageY |-> imageY, lat |-> lat, lng |-> lng]

NoRouteInfo == [startPoint |-> "", endPoint |-> ""]

Some(seq, Test(_)) == \E k \in 1..Len(seq) : Test(seq[k])

(***************************************************************************)
(* RouteSpotHandler (route-spot-handler.js).                               *)
(***************************************************************************)
detectJsonType(data) ==
    LET IsWaypoint(point) == point.type = "waypoint" /\ hasImageXY(point)
        IsValidSpot(spot) == spot.name # "" /\ hasImageXY(spot)
        IsNonWaypoint(point) ==
            point.type # "waypoint" /\ (point.id # "" \/ point.name # "") /\ hasImageXY(point)
    IN  IF data.routeInfo.startPoint # "" /\ data.routeInfo.endPoint # ""
           /\ Some(data.points, IsWaypoint) THEN "route"
        ELSE IF Some(data.spots, IsValidSpot) THEN "spot"
        ELSE IF Some(data.points, IsNonWaypoint) THEN "point"
        ELSE "null"

\* RouteSpotHandler.convertImageCoordsToGps: Undef for null, else <<lat, lng>>.
convertImageCoordsToGpsRS(s, imageX, imageY) ==
    IF s.imageOverlay = Undef THEN Undef
    ELSE IF ~Truthy(s.currentImage.width) \/ ~Truthy(s.currentImage.height) THEN Undef
    ELSE convertImageCoordsToGps(imageX, imageY, s.imageOverlay,
                                 s.currentImage.width, s.currentImage.height)

extractCoordinates(s, spot) ==
    IF Truthy(spot.lat) /\ Truthy(spot.lng) THEN <<spot.lat, spot.lng>>
    ELSE IF hasImageXY(spot) THEN convertImageCoordsToGpsRS(s, spot.imageX, spot.imageY)
    ELSE Undef

FileStem(fileName) == fileName   \* fileName.replace('.json', ''): names carry no suffix

extractStartPoint(route) ==
    [lat |-> Undef, lng |-> Undef, name |-> route.routeInfo.startPoint,
     id |-> route.routeInfo.startPoint]

extractEndPoint(route) ==
    [lat |-> Undef, lng |-> Undef, name |-> route.routeInfo.endPoint,
     id |-> route.routeInfo.endPoint]

\* A route document always carries routeInfo (detectJsonType), so the start and end
\* points come from it.
processRouteData(data, fileName) ==
    <<[fileName |-> fileName, name |-> data.name,
       routeId |-> IF data.id # "" THEN data.id ELSE FileStem(fileName),
       routeInfo |-> data.routeInfo, points |-> data.points,
       startPoint |-> <<extractStartPoint(data)>>, endPoint |-> <<extractEndPoint(data)>>]>>

processSpotData(s, data, fileName) ==
    [index \in 1..Len(data.spots) |->
        LET spotItem == data.spots[index]
        IN  [name |-> spotItem.name, id |-> spotItem.id,
             imageX |-> spotItem.imageX, imageY |-> spotItem.imageY,
             lat |-> spotItem.lat, lng |-> spotItem.lng,
             fileName |-> fileName,
             spotId |-> IF spotItem.id # "" THEN spotItem.id
                        ELSE IF spotItem.name # "" THEN spotItem.name
                        ELSE fileName \o "_spot_" \o ToString(index - 1),
             coordinates |-> extractCoordinates(s, spotItem)]]

\* a comparison that lets a difference of exactly the tolerance pass
NearOrAt(p, q, tolerance) == RLe(RAbs(RSub(p, q)), tolerance)

NearBy(p, q, tolerance) == RLt(RAbs(RSub(p, q)), tolerance)

\* a comparison of routes that knows the forward direction only
IsSameRouteForward(route1, route2) ==
    IF route1.startPoint = Undef \/ route1.endPoint = Undef
       \/ route2.startPoint = Undef \/ route2.endPoint = Undef THEN FALSE
    ELSE LET start1 == route1.startPoint[1]  end1 == route1.endPoint[1]
             start2 == route2.startPoint[1]  end2 == route2.endPoint[1]
             start1Id == IF start1.id # "" THEN start1.id ELSE start1.name
             end1Id == IF end1.id # "" THEN end1.id ELSE end1.name
             start2Id == IF start2.id # "" THEN start2.id ELSE start2.name
             end2Id == IF end2.id # "" THEN end2.id ELSE end2.name
             tolerance == Rat(1, 10000)
         IN  IF start1Id # "" /\ end1Id # "" /\ start2Id # "" /\ end2Id # ""
             THEN start1Id = start2Id /\ end1Id = end2Id
             ELSE IF Truthy(start1.lat) /\ Truthy(start1.lng) /\ Truthy(end1.lat)
                     /\ Truthy(end1.lng) /\ Truthy(start2.lat) /\ Truthy(start2.lng)
                     /\ Truthy(end2.lat) /\ Truthy(end2.lng)
             THEN NearBy(start1.lat, start2.lat, tolerance)
                  /\ NearBy(start1.lng, start2.lng, tolerance)
                  /\ NearBy(end1.lat, end2.lat, tolerance)
                  /\ NearBy(end1.lng, end2.lng, tolerance)
             ELSE FALSE

isSameRoute(route1, route2) ==
    IF route1.startPoint = Undef \/ route1.endPoint = Undef
       \/ route2.startPoint = Undef \/ route2.endPoint = Undef THEN FALSE
    ELSE LET start1 == route1.startPoint[1]  end1 == route1.endPoint[1]
             start2 == route2.startPoint[1]  end2 == route2.endPoint[1]
             start1Id == IF start1.id # "" THEN start1.id ELSE start1.name
             end1Id == IF end1.id # "" THEN end1.id ELSE end1.name
             start2Id == IF start2.id # "" THEN start2.id ELSE start2.name
             end2Id == IF end2.id # "" THEN end2.id ELSE end2.name
             tolerance == Rat(1, 10000)
         IN  IF start1Id # "" /\ end1Id # "" /\ start2Id # "" /\ end2Id # ""
             THEN (start1Id = start2Id /\ end1Id = end2Id)
                  \/ (start1Id = end2Id /\ end1Id = start2Id)
             ELSE IF Truthy(start1.lat) /\ Truthy(start1.lng) /\ Truthy(end1.lat)
                     /\ Truthy(end1.lng) /\ Truthy(start2.lat) /\ Truthy(start2.lng)
                     /\ Truthy(end2.lat) /\ Truthy(end2.lng)
             THEN (NearBy(start1.lat, start2.lat, tolerance)
                   /\ NearBy(start1.lng, start2.lng, tolerance)
                   /\ NearBy(end1.lat, end2.lat, tolerance)
                   /\ NearBy(end1.lng, end2.lng, tolerance))
                  \/ (NearBy(start1.lat, end2.lat, tolerance)
                      /\ NearBy(start1.lng, end2.lng, tolerance)
                      /\ NearBy(end1.lat, start2.lat, tolerance)
                      /\ NearBy(end1.lng, start2.lng, tolerance))
             ELSE FALSE

isSameSpot(spot1, spot2) ==
    IF hasImageXY(spot1) /\ hasImageXY(spot2)
    THEN NearBy(spot1.imageX, spot2.imageX, Rat(1, 10))
         /\ NearBy(spot1.imageY, spot2.imageY, Rat(1, 10))
    ELSE IF spot1.coordinates = Undef \/ spot2.coordinates = Undef THEN FALSE
    ELSE NearBy(spot1.coordinates[1], spot2.coordinates[1], Rat(1, 10000))
         /\ NearBy(spot1.coordinates[2], spot2.coordinates[2], Rat(1, 10000))

\* a spread that lets the new item's coordinates through
SpreadSpotOverwrite(existingSpot, newItem) ==
    [name |-> IF newItem.name # "" THEN newItem.name ELSE existingSpot.name,
     id |-> IF newItem.id # "" THEN newItem.id ELSE existingSpot.id,
     imageX |-> IF newItem.imageX # Undef THEN newItem.imageX ELSE existingSpot.imageX,
     imageY |-> IF newItem.imageY # Undef THEN newItem.imageY ELSE existingSpot.imageY,
     lat |-> IF newItem.lat # Undef THEN newItem.lat ELSE existingSpot.lat,
     lng |-> IF newItem.lng # Undef THEN newItem.lng ELSE existingSpot.lng,
     fileName |-> newItem.fileName,
     spotId |-> newItem.spotId,
     coordinates |-> newItem.coordinates]

\* { ...existingSpot, ...newItem, coordinates: existingSpot.coordinates }: a key the
\* new item lacks keeps the existing value.
SpreadSpot(existingSpot, newItem) ==
    [name |-> IF newItem.name # "" THEN newItem.name ELSE existingSpot.name,
     id |-> IF newItem.id # "" THEN newItem.id ELSE existingSpot.id,
     imageX |-> IF newItem.imageX # Undef THEN newItem.imageX ELSE existingSpot.imageX,
     imageY |-> IF newItem.imageY # Undef THEN newItem.imageY ELSE existingSpot.imageY,
     lat |-> IF newItem.lat # Undef THEN newItem.lat ELSE existingSpot.lat,
     lng |-> IF newItem.lng # Undef THEN newItem.lng ELSE existingSpot.lng,
     fileName |-> newItem.fileName,
     spotId |-> newItem.spotId,
     coordinates |-> existingSpot.coordinates]

\* merged.findIndex(...): 0 for -1
RECURSIVE FindIndexFrom(_, _, _, _)
FindIndexFrom(merged, newItem, type, k) ==
    IF k > Len(merged) THEN 0
    ELSE IF (type = "route" /\ isSameRoute(merged[k], newItem))
            \/ (type = "spot" /\ isSameSpot(merged[k], newItem)) THEN k
    ELSE FindIndexFrom(merged, newItem, type, k + 1)

RECURSIVE MergeFrom(_, _, _, _)
MergeFrom(merged, newData, type, k) ==
    IF k > Len(newData) THEN merged
    ELSE LET newItem == newData[k]
             duplicateIndex == FindIndexFrom(merged, newItem, type, 1)
         IN  MergeFrom(
                IF duplicateIndex = 0 THEN Append(merged, newItem)
                ELSE IF type = "spot"
                THEN [merged EXCEPT ![duplicateIndex] =
                        SpreadSpot(merged[duplicateIndex], newItem)]
                ELSE [merged EXCEPT ![duplicateIndex] = newItem],
                newData, type, k + 1)

mergeAndDeduplicate(existingData, newData, type) == MergeFrom(existingData, newData, type, 1)

\* this.routeMarkers.push(marker) / this.spotMarkers.push(marker), for the marker
\* just created
PushRouteMarker(s) == [s EXCEPT !.routeMarkers = Append(@, newestMarker(s))]

PushSpotMarker(s) == [s EXCEPT !.spotMarkers = Append(@, newestMarker(s))]

\* displayRouteSpotOnMap, the body of data.forEach for one route: one marker per
\* point that has coordinates, provided at least two points have them.
RECURSIVE RouteMarkersFrom(_, _, _, _)
RouteMarkersFrom(s, item, points, k) ==
    IF k > Len(points) THEN s
    ELSE RouteMarkersFrom(
            PushRouteMarker(
                addMarker(s, <<points[k].lat, points[k].lng>>,
                          [origin |-> points[k].origin, imageX |-> points[k].imageX,
                           imageY |-> points[k].imageY,
                           routeId |-> IF item.name # "" THEN item.name ELSE item.routeId,
                           spotId |-> ""])),
            item, points, k + 1)

\* item.points.map(...): the point with its coordinates, or nothing for null
RoutePoint(point, coords) ==
    IF coords = Undef THEN << >>
    ELSE <<[lat |-> coords[1], lng |-> coords[2],
            origin |-> IF hasImageXY(point) THEN "image" ELSE "gps",
            imageX |-> point.imageX, imageY |-> point.imageY]>>

RECURSIVE RoutePointsFrom(_, _, _)
RoutePointsFrom(s, itemPoints, k) ==
    IF k > Len(itemPoints) THEN << >>
    ELSE RoutePoint(itemPoints[k], extractCoordinates(s, itemPoints[k]))
         \o RoutePointsFrom(s, itemPoints, k + 1)

RouteMarkersIfLine(s, item, points) ==
    IF Len(points) > 1 THEN RouteMarkersFrom(s, item, points, 1) ELSE s

DisplayRoute(s, item) == RouteMarkersIfLine(s, item, RoutePointsFrom(s, item.points, 1))

\* The body of data.forEach for one spot.
DisplaySpot(s, item) ==
    IF item.coordinates # Undef /\ Truthy(item.coordinates[1]) /\ Truthy(item.coordinates[2])
    THEN PushSpotMarker(
            addMarker(s, item.coordinates,
                      [origin |-> IF hasImageXY(item) THEN "image" ELSE "gps",
                       imageX |-> item.imageX, imageY |-> item.imageY, routeId |-> "",
                       spotId |-> IF item.name # "" THEN item.name ELSE item.spotId]))
    ELSE s

RECURSIVE DisplayFrom(_, _, _, _)
DisplayFrom(s, data, type, k) ==
    IF k > Len(data) THEN s
    ELSE DisplayFrom(IF type = "route" THEN DisplayRoute(s, data[k])
                     ELSE DisplaySpot(s, data[k]),
                     data, type, k + 1)

displayRouteSpotOnMap(s, data, type) == DisplayFrom(s, data, type, 1)

\* if (routeData.length > 0) { this.routeData = merge...; display }, and the same
\* for spots
MergeAndDisplay(s, newData, type) ==
    IF Len(newData) = 0 THEN s
    ELSE IF type = "route"
    THEN displayRouteSpotOnMap(
            [s EXCEPT !.routeData = mergeAndDeduplicate(@, newData, "route")], newData, type)
    ELSE displayRouteSpotOnMap(
            [s EXCEPT !.spotData = mergeAndDeduplicate(@, newData, "spot")], newData, type)

\* RouteSpotHandler.handleRouteSpotJsonLoad for the files [file], from the point
\* where file.text() has delivered the document `data`.  The spots are processed
\* while the file is read, before anything is displayed.
LoadDetected(s, data, detectedType) ==
    MergeAndDisplay(
        MergeAndDisplay(s, IF detectedType = "route"
                           THEN processRouteData(data, data.fileName) ELSE << >>, "route"),
        IF detectedType = "spot" THEN processSpotData(s, data, data.fileName) ELSE << >>,
        "spot")

handleRouteSpotJsonLoad(s, data) == LoadDetected(s, data, detectJsonType(data))

(***************************************************************************)
(* Point documents: CoordinateDisplay and the Georeferencing registry.     *)
(***************************************************************************)
RECURSIVE ExtractFrom(_, _)
ExtractFrom(points, k) ==
    IF k > Len(points) THEN << >>
    ELSE LET point == points[k]
             rest == ExtractFrom(points, k + 1)
         IN  IF hasImageXY(point)
             THEN <<[imageX |-> point.imageX, imageY |-> point.imageY,
                     name |-> IF point.name # "" THEN point.name ELSE point.id,
                     type |-> point.type, id |-> point.id]>> \o rest
             ELSE rest

extractImageCoordinates(data) == ExtractFrom(data.points, 1)

\* imageCoordinateMarkers.push({marker, type, data}) for the marker just created
PushCoordinateMarker(s, coord) ==
    [s EXCEPT !.appImageCoordinateMarkers =
        Append(@, [marker |-> newestMarker(s), type |-> "georeference-point",
                   data |-> coord])]

\* Returns the state with the new markers on the map and the extended list in
\* appImageCoordinateMarkers (the caller assigns the returned array to it).
RECURSIVE DisplayCoordinatesFrom(_, _, _)
DisplayCoordinatesFrom(s, coordinates, k) ==
    IF k > Len(coordinates) THEN s
    ELSE DisplayCoordinatesFrom(
            PushCoordinateMarker(
                addMarker(s, convertImageToLatLng(s, coordinates[k].imageX,
                                                  coordinates[k].imageY), NoMeta),
                coordinates[k]),
            coordinates, k + 1)

displayImageCoordinates(s, data) == DisplayCoordinatesFrom(s, extractImageCoordinates(data), 1)

RECURSIVE RemoveLayersFrom(_, _, _)
RemoveLayersFrom(s, list, k) ==
    IF k > Len(list) THEN s
    ELSE RemoveLayersFrom(removeLayer(s, list[k].marker), list, k + 1)

\* Georeferencing.clearImageCoordinateMarkers('georeference-point'): every registry
\* entry has that type.
clearImageCoordinateMarkers(s) ==
    [RemoveLayersFrom(s, s.imageCoordinateMarkers, 1) EXCEPT !.imageCoordinateMarkers = << >>]

addImageCoordinateMarker(s, markerInfo) ==
    [s EXCEPT !.imageCoordinateMarkers = Append(@, markerInfo)]

RECURSIVE AddAllFrom(_, _)
AddAllFrom(s, k) ==
    IF k > Len(s.appImageCoordinateMarkers) THEN s
    ELSE AddAllFrom(addImageCoordinateMarker(s, s.appImageCoordinateMarkers[k]), k + 1)

setPointJsonData(s, data) == [s EXCEPT !.pointJsonData = <<data>>]

(***************************************************************************)
(* GPSData (gps-data.js).                                                  *)
(***************************************************************************)
\* a setPointsFromExcelData that also drops the stored transformation
SetPointsAndForget(s, validatedData) ==
    [s EXCEPT !.gpsPoints = validatedData, !.currentTransformation = NoTransformation]

setPointsFromExcelData(s, validatedData) == [s EXCEPT !.gpsPoints = validatedData]

\* clearMarkersFromMap, then one marker per point.
\* the new markers added to the ones already shown
DisplayWithoutClear(s) ==
    [s EXCEPT !.gpsMarkers =
        @ \o [index \in 1..Len(s.gpsPoints) |->
                 [latlng |-> <<s.gpsPoints[index].lat, s.gpsPoints[index].lng>>,
                  data |-> s.gpsPoints[index], index |-> index - 1]]]

displayPointsOnMap(s) ==
    [s EXCEPT !.gpsMarkers =
        [index \in 1..Len(s.gpsPoints) |->
            [latlng |-> <<s.gpsPoints[index].lat, s.gpsPoints[index].lng>>,
             data |-> s.gpsPoints[index], index |-> index - 1]]]

(***************************************************************************)
(* GeoJSON export (app-main.js).                                           *)
(***************************************************************************)
\* the first `digits` decimals of r / d (0 <= r < d) as an integer, rounded half up
RECURSIVE DecimalsFrom(_, _, _, _)
DecimalsFrom(r, d, digits, acc) ==
    IF digits = 0 THEN IF 2 * r >= d THEN acc + 1 ELSE acc
    ELSE DecimalsFrom((r * 10) % d, d, digits - 1, acc * 10 + ((r * 10) \div d))

\* Math.round(coordinate * 100000) / 100000
roundCoordinate(coordinate) ==
    IF ~isFinite(coordinate) THEN NaN
    ELSE RAdd(Num(coordinate[1] \div coordinate[2]),
              Rat(DecimalsFrom(coordinate[1] % coordinate[2], coordinate[2], 5, 0), 100000))

\* a Feature: its properties.id in parts, its type and source, and the marker or
\* the position in the list it was made from
Feature(type, source, id, index, name, entity, lat, lng) ==
    [type |-> type, source |-> source, id |-> id, index |-> index, name |-> name,
     entity |-> entity,
     coordinates |-> <<roundCoordinate(lng), roundCoordinate(lat)>>]

\* 1. one feature per matched pair, from the GPS side of the pair
RECURSIVE GpsFeaturesFrom(_, _)
GpsFeaturesFrom(matchedPairs, k) ==
    IF k > Len(matchedPairs) THEN << >>
    ELSE <<Feature("ポイントGPS", "GPS_Excel", <<matchedPairs[k].gpsPoint.pointId>>, 0, "", k,
                   matchedPairs[k].gpsPoint.lat, matchedPairs[k].gpsPoint.lng)>>
         \o GpsFeaturesFrom(matchedPairs, k + 1)

\* meta.routeId || 'unknown_route'
GroupKey(s, marker) ==
    IF s.markers[marker].meta.routeId # "" THEN s.markers[marker].meta.routeId
    ELSE "unknown_route"

\* routeGroupMap: the keys in insertion order ...
RECURSIVE RouteGroupKeysFrom(_, _, _)
RouteGroupKeysFrom(s, k, keys) ==
    IF k > Len(s.routeMarkers) THEN keys
    ELSE RouteGroupKeysFrom(s, k + 1,
            IF s.markers[s.routeMarkers[k]].meta.origin = "image"
               /\ ~\E j \in 1..Len(keys) : keys[j] = GroupKey(s, s.routeMarkers[k])
            THEN Append(keys, GroupKey(s, s.routeMarkers[k])) ELSE keys)

\* ... and the image-origin markers of one key, in the order of routeMarkers
RECURSIVE RouteGroupFrom(_, _, _)
RouteGroupFrom(s, routeId, k) ==
    IF k > Len(s.routeMarkers) THEN << >>
    ELSE (IF s.markers[s.routeMarkers[k]].meta.origin = "image"
             /\ GroupKey(s, s.routeMarkers[k]) = routeId
          THEN <<s.routeMarkers[k]>> ELSE << >>)
         \o RouteGroupFrom(s, routeId, k + 1)

\* this.routeSpotHandler.routeData.find(...): 0 for undefined
RECURSIVE FindRouteFrom(_, _, _)
FindRouteFrom(s, routeId, k) ==
    IF k > Len(s.routeData) THEN 0
    ELSE IF s.routeData[k].routeId = routeId \/ s.routeData[k].name = routeId
            \/ (s.routeData[k].fileName # "" /\ FileStem(s.routeData[k].fileName) = routeId)
    THEN k
    ELSE FindRouteFrom(s, routeId, k + 1)

\* (routeData.startPoint && routeData.startPoint.id) || routeInfo.startPoint || ...
EndName(point, fromInfo, unknown) ==
    IF point # Undef /\ point[1].id # "" THEN point[1].id
    ELSE IF fromInfo # "" THEN fromInfo
    ELSE unknown

\* `route_${startPoint}_to_${endPoint}`, as the pair of its parts
FullRouteId(s, found) ==
    IF found = 0 THEN <<"unknown_start", "unknown_end">>
    ELSE <<EndName(s.routeData[found].startPoint, s.routeData[found].routeInfo.startPoint,
                   "unknown_start"),
           EndName(s.routeData[found].endPoint, s.routeData[found].routeInfo.endPoint,
                   "unknown_end")>>

\* markers.forEach((marker, index) => features.push(...))
RECURSIVE WaypointFeaturesFrom(_, _, _, _)
WaypointFeaturesFrom(s, fullRouteId, group, index) ==
    IF index > Len(group) THEN << >>
    ELSE <<Feature("route_waypoint", "image_transformed", fullRouteId, index, "waypoint",
                   group[index], s.markers[group[index]].latlng[1],
                   s.markers[group[index]].latlng[2])>>
         \o WaypointFeaturesFrom(s, fullRouteId, group, index + 1)

\* 2. for (const [routeId, markers] of routeGroupMap)
RECURSIVE RouteFeaturesFrom(_, _, _)
RouteFeaturesFrom(s, keys, k) ==
    IF k > Len(keys) THEN << >>
    ELSE WaypointFeaturesFrom(s, FullRouteId(s, FindRouteFrom(s, keys[k], 1)),
                              RouteGroupFrom(s, keys[k], 1), 1)
         \o RouteFeaturesFrom(s, keys, k + 1)

\* getLatestSpots: no marker carries a timestamp, so `0 > undefined` never replaces
\* the first marker of a spotId; a marker without spotId is left out.
RECURSIVE LatestSpotsFrom(_, _, _)
LatestSpotsFrom(s, k, latest) ==
    IF k > Len(s.spotMarkers) THEN latest
    ELSE LatestSpotsFrom(s, k + 1,
            IF s.markers[s.spotMarkers[k]].meta.spotId # ""
               /\ ~\E j \in 1..Len(latest) :
                      s.markers[latest[j]].meta.spotId
                          = s.markers[s.spotMarkers[k]].meta.spotId
            THEN Append(latest, s.spotMarkers[k]) ELSE latest)

getLatestSpots(s) == LatestSpotsFrom(s, 1, << >>)

\* 3. for (const marker of latestSpots), numbering the image-origin spots
RECURSIVE SpotFeaturesFrom(_, _, _, _)
SpotFeaturesFrom(s, latestSpots, k, spotCounter) ==
    IF k > Len(latestSpots) THEN << >>
    ELSE IF s.markers[latestSpots[k]].meta.origin = "image"
    THEN <<Feature("spot", "image_transformed", <<"spot">>, spotCounter,
                   s.markers[latestSpots[k]].meta.spotId, latestSpots[k],
                   s.markers[latestSpots[k]].latlng[1],
                   s.markers[latestSpots[k]].latlng[2])>>
         \o SpotFeaturesFrom(s, latestSpots, k + 1, spotCounter + 1)
    ELSE SpotFeaturesFrom(s, latestSpots, k + 1, spotCounter)

\* the features of the FeatureCollection
collectGeoreferencedData(s) ==
    GpsFeaturesFrom(matchPointJsonWithGPS(s, s.gpsPoints).matchedPairs, 1)
    \o RouteFeaturesFrom(s, RouteGroupKeysFrom(s, 1, << >>), 1)
    \o SpotFeaturesFrom(s, getLatestSpots(s), 1, 1)

(***************************************************************************)
(* The inputs the handlers are driven with.                                *)
(***************************************************************************)
NoImage == [src |-> FALSE, width |-> Num(0), height |-> Num(0)]   \* new Image()

Images == {[src |-> TRUE, width |-> Num(4), height |-> Num(2)]}

GpsPoint(pointId, lat, lng) == [pointId |-> pointId, lat |-> Num(lat), lng |-> Num(lng)]

\* validated Excel sheets: three reference points, the same points surveyed
\* elsewhere, a sheet with two points only, and a sheet without a valid row
GpsSheets ==
    {<<GpsPoint("A", 36, 134), GpsPoint("B", 36, 138), GpsPoint("C", 32, 134)>>,
     <<GpsPoint("A", 35, 135), GpsPoint("B", 35, 137), GpsPoint("C", 34, 135)>>,
     <<GpsPoint("A", 36, 134), GpsPoint("B", 36, 138)>>,
     << >>}

Document(fileName, routeInfo, points, spots) ==
    [fileName |-> fileName, id |-> "", name |-> "", routeInfo |-> routeInfo,
     points |-> points, spots |-> spots]

ImagePoint(id, imageX, imageY) == Entity(id, "", Num(imageX), Num(imageY), Undef, Undef)

\* three points in general position
PointsTriangle ==
    Document("triangle", NoRouteInfo,
             <<ImagePoint("A", 0, 0), ImagePoint("B", 2, 0), ImagePoint("C", 0, 2)>>, << >>)

\* three points on one line
PointsLine ==
    Document("line", NoRouteInfo,
             <<ImagePoint("A", 0, 0), ImagePoint("B", 1, 1), ImagePoint("C", 2, 2)>>, << >>)

PointDocuments == {PointsTriangle, PointsLine}

\* a route with a surveyed point that carries imageX only, and an image waypoint
RouteDocument ==
    Document("route", [startPoint |-> "A", endPoint |-> "B"],
             <<Entity("", "waypoint", Num(1), Undef, Num(33), Num(136)),
               Entity("", "waypoint", Num(1), Num(1), Undef, Undef)>>, << >>)

\* a surveyed spot and an image spot
SpotDocument ==
    Document("spot", NoRouteInfo, << >>,
             <<[Entity("", "", Undef, Undef, Num(33), Num(134)) EXCEPT !.name = "peak"],
               [Entity("", "", Num(3), Num(0), Undef, Undef) EXCEPT !.name = "hut"]>>)

RouteSpotDocuments == {RouteDocument, SpotDocument}

\* file selections of the multi-file input
Batches == {<<PointsTriangle, PointsLine>>}

MaxMarkers == 6      \* markers created in one session
MaxTimers == 1       \* image loads waiting for their 100 ms timer

NoMultiLoad == [files |-> << >>, shouldClearMarkers |-> TRUE]

\* markers a document puts on the map at most
MarkersOf(data) == Len(data.points) + Len(data.spots)

RECURSIVE MarkersOfAll(_)
MarkersOfAll(files) ==
    IF files = << >> THEN 0 ELSE MarkersOf(Head(files)) + MarkersOfAll(Tail(files))

Room(s, n) == Len(s.markers) + n <= MaxMarkers

(***************************************************************************)
(* GeoReferencerApp handlers (app-main.js).  A handler that suspends on    *)
(* real I/O or a timer is one action per resumption.                       *)
(***************************************************************************)
\* the state a handler step starts from: obs reset, and whether the step is the
\* start of a JSON, image or match handler while a different one of them is
\* suspended half-way
Begin(otherSuspended) ==
    [State EXCEPT !.obs = [NoObs EXCEPT !.overlapped = otherSuspended]]

MultiSuspended == multiLoad.files # << >>

TimerPending == imageLoad > 0

HandleGpsExcelLoad ==
    \E validatedData \in GpsSheets :
        IF Len(validatedData) = 0   \* throws before anything is set
        THEN Commit([Begin(FALSE) EXCEPT !.obs.result = "gps load error"])
        ELSE Commit(displayPointsOnMap(
                        setPointsFromExcelData(
                            Begin(FALSE), validatedData)))

\* handleImageLoad -> loadImage, up to the start of the 100 ms timer: the file is
\* read, the image decodes, and currentImage.onload replaces the overlay.
ImageOnload ==
    \E image \in Images :
        /\ imageLoad < MaxTimers
        /\ Commit([Begin(MultiSuspended)
                      EXCEPT !.currentImage = image,
                             !.imageOverlay = getInitialBounds(State),
                             !.imageLoad = @ + 1])

\* the timer callback of loadImage: it follows an image load by itself and is
\* not counted as a step of the session
ImageTimer ==
    /\ imageLoad > 0
    /\ steps' = steps
    /\ Assign(updateImageDisplay([Begin(MultiSuspended)
                                     EXCEPT !.imageLoad = @ - 1]))

\* this.imageCoordinateMarkers = [] of the multi-file handler's first point file
ClearAppList(s, clearAppList) ==
    IF clearAppList THEN [s EXCEPT !.appImageCoordinateMarkers = << >>] ELSE s

\* georeferencing.clearImageCoordinateMarkers('georeference-point'): always in
\* handlePointCoordJsonLoad, at the first point file only in handleMultiJsonLoad
ClearRegistry(s, clearRegistry) ==
    IF clearRegistry THEN clearImageCoordinateMarkers(s) ELSE s

\* The point branch shared by handlePointCoordJsonLoad and handleMultiJsonLoad.
LoadPoints(s, data, clearRegistry, clearAppList) ==
    AddAllFrom(
        displayImageCoordinates(
            ClearAppList(ClearRegistry(setPointJsonData(s, data), clearRegistry),
                         clearAppList),
            data),
        1)

HandlePointCoordJsonLoad ==
    \E data \in PointDocuments :
        /\ Room(State, MarkersOf(data))
        /\ Commit(LoadPoints(Begin(MultiSuspended \/ TimerPending), data, TRUE, FALSE))

HandleRouteSpotJsonLoad ==
    \E data \in RouteSpotDocuments :
        /\ Room(State, MarkersOf(data))
        /\ Commit(handleRouteSpotJsonLoad(
                      Begin(MultiSuspended \/ TimerPending),
                      data))

\* handleMultiJsonLoad up to its first `await file.text()`.
MultiStart ==
    \E files \in Batches :
        /\ ~MultiSuspended
        /\ Room(State, MarkersOfAll(files))
        /\ Commit([Begin(TimerPending)
                      EXCEPT !.multiLoad = [files |-> files, shouldClearMarkers |-> TRUE]])

\* handleMultiJsonLoad resumed with the text of the next file; after the last file
\* it runs to its end.
MultiFile(s, data, detectedType) ==
    IF detectedType \in {"route", "spot"} THEN handleRouteSpotJsonLoad(s, data)
    ELSE IF detectedType = "point"
    THEN [LoadPoints(s, data, s.multiLoad.shouldClearMarkers,
                     s.multiLoad.shouldClearMarkers)
             EXCEPT !.multiLoad.shouldClearMarkers = FALSE]
    ELSE s

MultiStep ==
    /\ MultiSuspended
    /\ Room(State, MarkersOf(Head(multiLoad.files)))
    /\ Commit(MultiFile([Begin(TimerPending) EXCEPT !.multiLoad.files = Tail(@)],
                        Head(multiLoad.files), detectJsonType(Head(multiLoad.files))))

\* executeGeoreferencing, then performGeoreferencingCalculations; a throw of either
\* is reported and changes nothing further.
HandleMatchPoints ==
    IF ~currentImage.src \/ Len(gpsPoints) = 0 \/ ExecuteThrows(State)
    THEN Commit([Begin(MultiSuspended \/ TimerPending) EXCEPT !.obs.result = "error"])
    ELSE Commit(performGeoreferencingCalculations(
                    executeGeoreferencing(Begin(MultiSuspended \/ TimerPending))))

\* what handleExportGeoJson reports for the collected features: with none there
\* is nothing to save
Exported(s, features) ==
    [s.obs EXCEPT !.result = IF Len(features) = 0 THEN "error" ELSE "exported",
                  !.features = Len(features)]

\* handleExportGeoJson: saving writes a file and assigns no field of the program.
HandleExportGeoJson ==
    Commit([Begin(MultiSuspended \/ TimerPending)
               EXCEPT !.obs = Exported(Begin(MultiSuspended \/ TimerPending),
                                       collectGeoreferencedData(State))])

\* the program as its constructors leave it
Constructed ==
    /\ mapView = InitialView
    /\ markers = << >>
    /\ currentImage = NoImage
    /\ imageOverlay = Undef
    /\ imageUpdateCallbacks = << >>
    /\ transformedCenter = Undef
    /\ currentScale = getDefaultScale
    /\ gpsPoints = << >>
    /\ gpsMarkers = << >>
    /\ pointJsonData = Undef
    /\ currentTransformation = NoTransformation
    /\ imageCoordinateMarkers = << >>
    /\ imageUpdateCallbackRegistered = FALSE
    /\ appImageCoordinateMarkers = << >>
    /\ routeData = << >>
    /\ spotData = << >>
    /\ routeMarkers = << >>
    /\ spotMarkers = << >>
    /\ multiLoad = NoMultiLoad
    /\ imageLoad = 0
    /\ steps = 0
    /\ obs = NoObs

Init ==
    /\ Constructed
    /\ call = NoCall
    /\ returned = << >>

Next ==
    \/ HandleGpsExcelLoad
    \/ ImageOnload
    \/ ImageTimer
    \/ HandlePointCoordJsonLoad
    \/ HandleRouteSpotJsonLoad
    \/ MultiStart
    \/ MultiStep
    \/ HandleMatchPoints
    \/ HandleExportGeoJson

Spec == Init /\ [][Next]_vars

(***************************************************************************)
(* The GPS loaders (file-handler.js, GPSData).                             *)
(***************************************************************************)
\* value === undefined || value === null || value === ''
EmptyCell(value) == value = Undef

\* parseFloat of a cell: the number of a numeric cell; a cell of text that
\* does not start with a number is kept as NaN in a row
parseFloat(value) == ToNumber(value)

\* One data row of validateAndConvertExcelData: the point pushed, or nothing.
\* A row is [pointId, name, lat, lng], its cells under the required columns.
ValidatedRow(row) ==
    IF row.pointId = "" \/ row.name = "" \/ EmptyCell(row.lat) \/ EmptyCell(row.lng)
    THEN << >>
    ELSE IF parseFloat(row.lat) = NaN \/ parseFloat(row.lng) = NaN THEN << >>
    ELSE IF \/ RLt(parseFloat(row.lat), Num(-90)) \/ RGt(parseFloat(row.lat), Num(90))
            \/ RLt(parseFloat(row.lng), Num(-180)) \/ RGt(parseFloat(row.lng), Num(180))
    THEN << >>
    ELSE <<[pointId |-> row.pointId, lat |-> parseFloat(row.lat),
            lng |-> parseFloat(row.lng)]>>

RECURSIVE validateAndConvertExcelData(_)
validateAndConvertExcelData(rows) ==
    IF rows = << >> THEN << >>
    ELSE ValidatedRow(Head(rows)) \o validateAndConvertExcelData(Tail(rows))

\* properties.id || properties.name || `Point_${index + 1}`
DefaultPointId(index) == <<"Point_1", "Point_2", "Point_3">>[index]

\* One feature of processGeoJsonData: [geometry, coordinates, id, name], where
\* geometry is the geometry's type and coordinates is <<lng, lat>>.
ProcessedFeature(feature, index) ==
    IF feature.geometry # "Point" THEN << >>
    ELSE <<[pointId |-> IF feature.id # "" THEN feature.id
                        ELSE IF feature.name # "" THEN feature.name
                        ELSE DefaultPointId(index),
            lat |-> feature.coordinates[2], lng |-> feature.coordinates[1]]>>

RECURSIVE ProcessedFrom(_, _)
ProcessedFrom(features, index) ==
    IF index > Len(features) THEN << >>
    ELSE ProcessedFeature(features[index], index) \o ProcessedFrom(features, index + 1)

\* a FeatureCollection; a single Feature is processed like a collection of one
processGeoJsonData(features) == ProcessedFrom(features, 1)

(***************************************************************************)
(* Methods called on their own, with arguments drawn from small sets.      *)
(***************************************************************************)
programVars ==
    <<mapView, markers, currentImage, imageOverlay, imageUpdateCallbacks,
      transformedCenter, currentScale, gpsPoints, gpsMarkers, pointJsonData,
      currentTransformation, imageCoordinateMarkers, imageUpdateCallbackRegistered,
      appImageCoordinateMarkers, routeData, spotData, routeMarkers, spotMarkers,
      multiLoad, imageLoad, steps, obs>>

MaxEntities == 3     \* image entities in one point document
MaxCalls == 2        \* calls of one method with the same arguments

\* the sequences over S of a length up to n
SeqUpTo(S, n) == UNION {[1..m -> S] : m \in 0..n}

\* image entities: identified by id, by Id before id, by name only, by id before
\* name, by nothing, by an id no GPS point has, and identified but without pixel
\* coordinates
MatchEntities ==
    {ImagePoint("A", 0, 0),
     [ImagePoint("A", 2, 0) EXCEPT !.Id = "B"],
     [ImagePoint("", 0, 2) EXCEPT !.name = "C"],
     [ImagePoint("B", 1, 1) EXCEPT !.name = "A"],
     ImagePoint("", 3, 3),
     ImagePoint("Z", 4, 4),
     Entity("A", "", Undef, Undef, Undef, Undef)}

\* GPS lists: none, three points, one point, and an id listed twice
MatchGpsLists ==
    {<< >>,
     <<GpsPoint("A", 36, 134), GpsPoint("B", 36, 138), GpsPoint("C", 32, 134)>>,
     <<GpsPoint("B", 36, 138)>>,
     <<GpsPoint("A", 36, 134), GpsPoint("A", 35, 135)>>}

MatchCalls ==
    {[method |-> "matchPointJsonWithGPS", gpsPoints |-> g, pointJson |-> e, calls |-> 0] :
        g \in MatchGpsLists, e \in SeqUpTo(MatchEntities, MaxEntities)}

\* a processed spot with pixel position and resolved coordinates, each possibly
\* missing
Spot(name, imageX, imageY, coordinates) ==
    [name |-> name, id |-> "", imageX |-> imageX, imageY |-> imageY,
     lat |-> Undef, lng |-> Undef, fileName |-> "spot", spotId |-> name,
     coordinates |-> coordinates]

\* pixel positions 0.05, 0.1 and 0.2 px apart; coordinates 0.00005, 0.0001 and
\* one degree apart
SpotImageXs == {Undef, Num(100), Rat(2001, 20), Rat(1001, 10), Rat(501, 5)}

SpotImageYs == {Undef, Num(50), Rat(1001, 20)}

SpotCoordinates ==
    {Undef, <<Num(35), Num(135)>>, <<Rat(700001, 20000), Num(135)>>,
     <<Rat(350001, 10000), Num(135)>>, <<Num(35), Num(136)>>}

Spots ==
    {Spot("s", x, y, c) : x \in SpotImageXs, y \in SpotImageYs, c \in SpotCoordinates}

SameSpotCalls ==
    {[method |-> "isSameSpot", spot1 |-> s1, spot2 |-> s2] : s1 \in Spots, s2 \in Spots}

\* routeSpotHandler.isSameSpot(spot1, spot2)
CallIsSameSpot ==
    /\ call.method = "isSameSpot"
    /\ returned = << >>
    /\ returned' = <<isSameSpot(call.spot1, call.spot2)>>
    /\ UNCHANGED <<call, programVars>>

\* an end point as extractStartPoint / extractEndPoint return it
EndPoint(id, name, lat, lng) == <<[lat |-> lat, lng |-> lng, name |-> name, id |-> id]>>

\* no end point; identified by id, by name, by both; positions without identifier
\* that are 0.00005 degrees, 0.0001 degrees and a degree apart, and one on the
\* equator
EndPoints ==
    {Undef,
     EndPoint("A", "A", Undef, Undef),
     EndPoint("B", "", Num(35), Num(135)),
     EndPoint("", "A", Num(35), Num(136)),
     EndPoint("", "", Num(35), Num(135)),
     EndPoint("", "", Rat(700001, 20000), Num(135)),
     EndPoint("", "", Rat(350001, 10000), Num(135)),
     EndPoint("", "", Num(35), Num(136)),
     EndPoint("", "", Num(0), Num(135))}

\* a processed route
Route(fileName, startPoint, endPoint) ==
    [fileName |-> fileName, name |-> "", routeId |-> fileName, routeInfo |-> NoRouteInfo,
     points |-> << >>, startPoint |-> startPoint, endPoint |-> endPoint]

Routes == {Route("route", s, e) : s \in EndPoints, e \in EndPoints}

SameRouteCalls ==
    {[method |-> "isSameRoute", route1 |-> r1, route2 |-> r2] :
        r1 \in Routes, r2 \in Routes}

\* routeSpotHandler.isSameRoute(route1, route2)
CallIsSameRoute ==
    /\ call.method = "isSameRoute"
    /\ returned = << >>
    /\ returned' = <<isSameRoute(call.route1, call.route2)>>
    /\ UNCHANGED <<call, programVars>>

MaxMerges == 2       \* merges into one store

\* spots a and b within 0.1 px of each other with resolved coordinates a degree
\* apart, c without pixel position at the coordinates of a, d and e within 0.1 px
\* of each other where d has no resolved coordinates
MergeSpots ==
    {Spot("a", Num(100), Num(50), <<Num(35), Num(135)>>),
     Spot("b", Rat(2001, 20), Rat(1001, 20), <<Num(35), Num(136)>>),
     Spot("c", Undef, Undef, <<Num(35), Num(135)>>),
     Spot("d", Num(200), Num(50), Undef),
     Spot("e", Rat(4001, 20), Num(50), <<Num(36), Num(136)>>)}

\* routes A-B, B-A, A-C, and one without start point
MergeRoutes ==
    {Route("r1", EndPoint("A", "A", Undef, Undef), EndPoint("B", "B", Undef, Undef)),
     Route("r2", EndPoint("B", "B", Undef, Undef), EndPoint("A", "A", Undef, Undef)),
     Route("r3", EndPoint("A", "A", Undef, Undef), EndPoint("C", "C", Undef, Undef)),
     Route("r4", Undef, EndPoint("B", "B", Undef, Undef))}

\* the batches of one load: one or two records
Batches2(S) == [1..1 -> S] \cup [1..2 -> S]

\* created: for each entry of the store, the coordinates of the record that
\* created it
MergeCall(existingData, newData, type, created, merges) ==
    [method |-> "mergeAndDeduplicate", existingData |-> existingData,
     newData |-> newData, type |-> type, created |-> created, merges |-> merges]

MergeCalls ==
    {MergeCall(<< >>, n, "spot", << >>, 0) : n \in Batches2(MergeSpots)}
    \cup {MergeCall(<< >>, n, "route", << >>, 0) : n \in Batches2(MergeRoutes)}

\* routeSpotHandler.mergeAndDeduplicate(existingData, newData, type)
CallMerge ==
    /\ call.method = "mergeAndDeduplicate"
    /\ returned = << >>
    /\ returned' = <<mergeAndDeduplicate(call.existingData, call.newData, call.type)>>
    /\ UNCHANGED <<call, programVars>>

\* the coordinates of the entries that a merge appended to the store
CreatedBy(merged, from) ==
    [k \in 1..(Len(merged) - from) |->
        IF call.type = "spot" THEN merged[from + k].coordinates ELSE Undef]

\* this.spotData = mergeAndDeduplicate(this.spotData, spotData, 'spot'), and the
\* next load's batch
MergeAgain ==
    /\ call.method = "mergeAndDeduplicate"
    /\ returned # << >>
    /\ call.merges + 1 < MaxMerges
    /\ \E next \in Batches2(IF call.type = "spot" THEN MergeSpots ELSE MergeRoutes) :
          call' = MergeCall(returned[1], next, call.type,
                            call.created \o CreatedBy(returned[1], Len(call.created)),
                            call.merges + 1)
    /\ returned' = << >>
    /\ UNCHANGED programVars

\* georeferencing.matchPointJsonWithGPS(gpsPoints) with pointJsonData = {points: [...]}
CallMatch ==
    /\ call.method = "matchPointJsonWithGPS"
    /\ call.calls < MaxCalls
    /\ returned' = <<matchPointJsonWithGPS(
                       [State EXCEPT !.pointJsonData =
                           <<Document("", NoRouteInfo, call.pointJson, << >>)>>],
                       call.gpsPoints)>>
    /\ call' = [call EXCEPT !.calls = @ + 1]
    /\ UNCHANGED programVars

\* a matched pair as matchPointJsonWithGPS returns it
ControlPoint(id, imageX, imageY, lat, lng) ==
    [pointJsonId |-> id, pointJson |-> ImagePoint(id, imageX, imageY),
     gpsPoint |-> GpsPoint(id, lat, lng)]

\* control points: two only; three and four in general position; three at one
\* pixel; three on the diagonal; three on the line through (201, 854) with the
\* direction (4, 17)
EstimateSets ==
    {<<ControlPoint("A", 0, 0, 36, 134), ControlPoint("B", 2, 0, 36, 138)>>,
     <<ControlPoint("A", 0, 0, 36, 134), ControlPoint("B", 2, 0, 36, 138),
       ControlPoint("C", 0, 2, 32, 134)>>,
     <<ControlPoint("A", 10, 20, 36, 134), ControlPoint("B", 630, 45, 36, 138),
       ControlPoint("C", 25, 470, 32, 134), ControlPoint("D", 640, 480, 32, 138)>>,
     <<ControlPoint("A", 100, 100, 36, 134), ControlPoint("B", 100, 100, 36, 138),
       ControlPoint("C", 100, 100, 32, 134)>>,
     <<ControlPoint("A", 0, 0, 36, 134), ControlPoint("B", 1, 1, 36, 138),
       ControlPoint("C", 2, 2, 32, 134)>>,
     <<ControlPoint("A", 201, 854, 36, 134), ControlPoint("B", 361, 1534, 36, 138),
       ControlPoint("C", 321, 1364, 32, 134)>>}

EstimateCalls ==
    {[method |-> "calculatePreciseTransformation", controlPoints |-> c] :
        c \in EstimateSets}

\* affineTransformation.calculatePreciseTransformation(controlPoints)
CallEstimate ==
    /\ call.method = "calculatePreciseTransformation"
    /\ returned = << >>
    /\ returned' = <<calculatePreciseTransformation64(call.controlPoints)>>
    /\ UNCHANGED <<call, programVars>>

\* images: none yet (new Image()), a 4 x 2 image, and one without a width
PlacementImages ==
    {NoImage,
     [src |-> TRUE, width |-> Num(4), height |-> Num(2)],
     [src |-> TRUE, width |-> Num(0), height |-> Num(2)]}

\* the overlay object: its placement state before the call
OverlayAt(image, bounds, center, scale) ==
    [currentImage |-> image, imageOverlay |-> bounds,
     transformedCenter |-> center, currentScale |-> scale]

PlacementStates ==
    {OverlayAt(image, bounds, center, getDefaultScale) :
        image \in PlacementImages,
        bounds \in {Undef, <<<<Num(33), Num(134)>>, <<Num(35), Num(136)>>>>},
        center \in {Undef, <<Num(34), Num(135)>>}}

PlacementCalls ==
    {[method |-> "setTransformedPosition", overlay |-> o,
      centerLat |-> lat, centerLng |-> Num(135), scale |-> scale] :
        o \in PlacementStates, lat \in {Num(35), NaN}, scale \in {Num(2), NaN}}
    \cup {[method |-> "updateImageDisplay", overlay |-> o] :
            o \in PlacementStates
               \cup {OverlayAt([src |-> TRUE, width |-> Num(4), height |-> Num(2)],
                                <<<<Num(33), Num(134)>>, <<Num(35), Num(136)>>>>,
                                <<NaN, Num(135)>>, Num(2))}}

\* the program with the overlay in the given placement state
WithOverlay(o) ==
    [State EXCEPT !.currentImage = o.currentImage, !.imageOverlay = o.imageOverlay,
                  !.transformedCenter = o.transformedCenter,
                  !.currentScale = o.currentScale]

\* the overlay's placement state and the notifications sent
Placement(s) ==
    [imageOverlay |-> s.imageOverlay, transformedCenter |-> s.transformedCenter,
     currentScale |-> s.currentScale, notifications |-> s.obs.notifications]

\* imageOverlay.setTransformedPosition(centerLat, centerLng, scale)
CallSetTransformedPosition ==
    /\ call.method = "setTransformedPosition"
    /\ returned = << >>
    /\ returned' = <<Placement(setTransformedPosition(
                                   WithOverlay(call.overlay), call.centerLat,
                                   call.centerLng, call.scale))>>
    /\ UNCHANGED <<call, programVars>>

\* imageOverlay.updateImageDisplay()
CallUpdateImageDisplay ==
    /\ call.method = "updateImageDisplay"
    /\ returned = << >>
    /\ returned' = <<Placement(updateImageDisplay(WithOverlay(call.overlay)))>>
    /\ UNCHANGED <<call, programVars>>

\* a matrix or a vector of whole numbers
Whole(row) == Array([j \in 1..Len(row) |-> Num(row[j])])

WholeMatrix(rows) == Array([r \in 1..Len(rows) |-> Whole(rows[r])])

\* systems of two equations: one solved without a row exchange, the same with
\* its rows exchanged, one with a zero on the diagonal, a singular one with
\* small entries, two singular ones with entries of the order of a million,
\* and one with a row of B missing
GaussJordanCalls ==
    {[method |-> "gaussJordan", A |-> WholeMatrix(s[1]), B |-> Whole(s[2])] :
        s \in {<<<<<<2, 1>>, <<1, 3>>>>, <<3, 5>>>>,
                <<<<<<1, 3>>, <<2, 1>>>>, <<5, 3>>>>,
                <<<<<<0, 1>>, <<1, 0>>>>, <<7, 9>>>>,
                <<<<<<1, 2>>, <<2, 4>>>>, <<1, 2>>>>,
                <<<<<<3000000, 1000000>>, <<2999997, 999999>>>>, <<1, 2>>>>,
                <<<<<<27520, 977830>>, <<24768, 880047>>>>, <<1, 2>>>>,
                <<<<<<2, 1>>, <<1, 3>>>>, <<3>>>>}}

\* mathUtils.gaussJordan(A, B), on the doubles nearest to the entries
CallGaussJordan ==
    /\ call.method = "gaussJordan"
    /\ returned = << >>
    /\ returned' = <<gaussJordan64(Matrix64(call.A), Vector64(call.B))>>
    /\ UNCHANGED <<call, programVars>>

\* matrices: without rows, with a first row without columns, rectangular ones,
\* and ragged ones whose later row is shorter or longer than the first
TransposeCalls ==
    {[method |-> "transpose", matrix |-> WholeMatrix(m)] :
        m \in {<< >>, << << >> >>, << << >>, << >> >>,
               <<<<1>>>>, <<<<1, 2, 3>>, <<4, 5, 6>>>>, <<<<1, 2>>, <<3, 4>>, <<5, 6>>>>,
               <<<<1, 2>>, <<3>>>>, <<<<1>>, <<2, 3>>>>, <<<<1, 2>>, << >>>>}}

\* mathUtils.transpose(matrix): null, or the array returned
CallTranspose ==
    /\ call.method = "transpose"
    /\ returned = << >>
    /\ returned' = <<[null |-> transposeFails(call.matrix),
                      matrix |-> transpose(call.matrix)]>>
    /\ UNCHANGED <<call, programVars>>

\* a transformation object with the given coefficients
Precise(a, b, c, d, e, f) ==
    [type |-> "precise",
     transformation |-> [a |-> a, b |-> b, c |-> c, d |-> d, e |-> e, f |-> f],
     controlPoints |-> << >>]

\* transformations: null, one without its coefficient object, a complete one,
\* and ones with a coefficient missing
AffineTransformations ==
    {NoTransformation,
     [type |-> "precise", transformation |-> NoCoefficients, controlPoints |-> << >>],
     Precise(Rat(1, 100), Num(0), Num(135), Num(0), Rat(-1, 100), Num(35)),
     Precise(Undef, Num(0), Num(135), Num(0), Rat(-1, 100), Num(35)),
     Precise(Rat(1, 100), Num(0), Num(135), Num(0), Rat(-1, 100), Undef),
     Precise(Undef, Undef, Undef, Undef, Undef, Undef)}

ApplyCalls ==
    {[method |-> "applyAffineTransform", imageX |-> Num(x), imageY |-> Num(y),
      transformation |-> t] :
        x \in {0, 100}, y \in {0, 200}, t \in AffineTransformations}

\* mathUtils.applyAffineTransform(imageX, imageY, transformation)
CallApplyAffineTransform ==
    /\ call.method = "applyAffineTransform"
    /\ returned = << >>
    /\ returned' = <<applyAffineTransform(call.imageX, call.imageY,
                                           call.transformation)>>
    /\ UNCHANGED <<call, programVars>>

\* rows of a sheet: latitudes inside the range, at its ends, beyond them, not
\* a number and empty; longitudes inside and beyond
ExcelRows ==
    {[pointId |-> "A", name |-> name, lat |-> lat, lng |-> lng] :
        name \in {"", "peak"},
        lat \in {Num(35), Num(90), Num(-90), Num(91), Num(-91), Rat(179, 2), NaN, Undef},
        lng \in {Num(135), Num(181)}}

GeoJsonFeatures ==
    {[geometry |-> g, coordinates |-> <<Num(135), lat>>, id |-> id, name |-> ""] :
        g \in {"Point", "LineString"}, lat \in {Num(35), Num(90), Num(95)},
        id \in {"", "A"}}

LoaderCalls ==
    {[method |-> "validateAndConvertExcelData", rows |-> rows] :
        rows \in {<<r>> : r \in ExcelRows}
                 \cup {<<[pointId |-> "B", name |-> "pass", lat |-> Num(34),
                          lng |-> Num(135)], r>> : r \in ExcelRows}}
    \cup {[method |-> "processGeoJsonData", features |-> features] :
            features \in {<<f>> : f \in GeoJsonFeatures}
                         \cup {<<f, g>> : f \in GeoJsonFeatures, g \in GeoJsonFeatures}}

\* fileHandler.validateAndConvertExcelData(rawData), on the data rows
CallValidateExcel ==
    /\ call.method = "validateAndConvertExcelData"
    /\ returned = << >>
    /\ returned' = <<validateAndConvertExcelData(call.rows)>>
    /\ UNCHANGED <<call, programVars>>

\* gpsData.processGeoJsonData(geoJsonData)
CallProcessGeoJson ==
    /\ call.method = "processGeoJsonData"
    /\ returned = << >>
    /\ returned' = <<processGeoJsonData(call.features)>>
    /\ UNCHANGED <<call, programVars>>

CallsInit ==
    /\ Constructed
    /\ call \in MatchCalls \cup SameSpotCalls \cup SameRouteCalls \cup MergeCalls
                \cup EstimateCalls \cup PlacementCalls \cup GaussJordanCalls
                \cup TransposeCalls \cup ApplyCalls \cup LoaderCalls
    /\ returned = << >>

CallsNext ==
    \/ CallMatch
    \/ CallIsSameSpot
    \/ CallIsSameRoute
    \/ CallMerge
    \/ MergeAgain
    \/ CallEstimate
    \/ CallSetTransformedPosition
    \/ CallUpdateImageDisplay
    \/ CallGaussJordan
    \/ CallTranspose
    \/ CallApplyAffineTransform
    \/ CallValidateExcel
    \/ CallProcessGeoJson

CallsSpec == CallsInit /\ [][CallsNext]_vars

(***************************************************************************)
(* Properties.                                                             *)
(***************************************************************************)
\* the markers the route/spot store tracks
TrackedRouteSpot ==
    {routeMarkers[k] : k \in 1..Len(routeMarkers)}
        \cup {spotMarkers[k] : k \in 1..Len(spotMarkers)}

IsImageOrigin(m) == markers[m].meta.origin = "image" /\ hasImageXY(markers[m].meta)

\* C1: whatever runs, notifications and synchronisation passes have happened, a
\* gps-origin marker of the route/spot store is displayed where it was created.
GpsOriginNeverMoved ==
    \A m \in TrackedRouteSpot :
        markers[m].meta.origin = "gps" => markers[m].latlng = markers[m].created

\* a pass has just moved an image-origin marker next to a gps-origin one
GpsOriginNeverMovedWitness ==
    /\ currentTransformation # NoTransformation
    /\ obs.routeSpotPasses > 0
    /\ \E m \in TrackedRouteSpot : markers[m].meta.origin = "gps"
    /\ \E m \in TrackedRouteSpot : IsImageOrigin(m) /\ markers[m].latlng # markers[m].created

\* the position of marker m's image coordinates under the stored transformation
TransformedPosition(imageX, imageY) ==
    applyAffineTransform(imageX, imageY, currentTransformation)

\* the bounds-based projection of image coordinates into the overlay's bounds
BoundsProjection(imageX, imageY) ==
    convertImageCoordsToGps(imageX, imageY, imageOverlay,
                            currentImage.width, currentImage.height)

\* the georeference points of the registry with image coordinates
TrackedPoints ==
    {k \in 1..Len(imageCoordinateMarkers) : hasImageXY(imageCoordinateMarkers[k].data)}

PointPosition(k) == markers[imageCoordinateMarkers[k].marker].latlng

\* C2: with a transformation stored, when a successful run or an image-updated
\* notification has completed, every tracked image-origin entity with image
\* coordinates is displayed at applyAffineTransform of them.
RepositionedByTransformation ==
    (/\ currentTransformation # NoTransformation
     /\ obs.notifications > 0 \/ (obs.result = "completed" /\ obs.solvable))
    => /\ \A k \in TrackedPoints :
            PointPosition(k) = TransformedPosition(imageCoordinateMarkers[k].data.imageX,
                                                   imageCoordinateMarkers[k].data.imageY)
       /\ \A m \in TrackedRouteSpot :
            IsImageOrigin(m) =>
                markers[m].latlng = TransformedPosition(markers[m].meta.imageX,
                                                        markers[m].meta.imageY)

\* a successful run has moved points and an image-origin spot
RepositionedByTransformationWitness ==
    /\ obs.result = "completed" /\ obs.solvable
    /\ currentTransformation # NoTransformation
    /\ TrackedPoints # {}
    /\ \E k \in 1..Len(spotMarkers) :
          /\ IsImageOrigin(spotMarkers[k])
          /\ markers[spotMarkers[k]].latlng # markers[spotMarkers[k]].created

\* C3: with no transformation estimated, after a change of the overlay's bounds
\* every image-origin entity is displayed at the bounds-based projection of its
\* image coordinates.
ProvisionalPositionFollowsBounds ==
    (/\ currentTransformation = NoTransformation
     /\ imageOverlay # Undef
     /\ obs.notifications > 0)
    => /\ \A k \in TrackedPoints :
            PointPosition(k) = BoundsProjection(imageCoordinateMarkers[k].data.imageX,
                                                imageCoordinateMarkers[k].data.imageY)
       /\ \A m \in TrackedRouteSpot :
            IsImageOrigin(m) =>
                markers[m].latlng = BoundsProjection(markers[m].meta.imageX,
                                                     markers[m].meta.imageY)

\* C4: the overlay's callback list holds at most one synchronisation callback, and
\* one notification runs the synchronisation pass at most once.
AtMostOneCallback ==
    /\ Len(imageUpdateCallbacks) <= 1
    /\ obs.callbackRuns <= obs.notifications

\* a run completes with the callback of an earlier run still the only one
AtMostOneCallbackWitness ==
    /\ obs.result = "completed"
    /\ obs.callbackRuns > 0
    /\ Len(imageUpdateCallbacks) = 1

\* the run the match handler starts in this state, after executeGeoreferencing
CanRun == currentImage.src /\ Len(gpsPoints) > 0 /\ ~ExecuteThrows(State)

RunFromHere ==
    performGeoreferencingCalculations([executeGeoreferencing(State) EXCEPT !.obs = NoObs])

\* C5: in a successful run the pass over the point markers and the pass over the
\* route/spot markers execute once each.
SinglePassPerRun ==
    (CanRun /\ RunFromHere.obs.result = "completed" /\ RunFromHere.obs.solvable)
    => /\ RunFromHere.obs.pointPasses = 1
       /\ RunFromHere.obs.routeSpotPasses = 1

\* the synchronisation pass: syncPointPositions, then syncRouteSpotPositions
SyncPass(s) == syncRouteSpotPositions(syncPointPositions(s))

\* the registry entries of marker m that carry image coordinates
PointEntriesOf(m) == {k \in TrackedPoints : imageCoordinateMarkers[k].marker = m}

\* where the pass has to put a georeference point with the image coordinates of
\* registry entry k
ExpectedPoint(k) ==
    IF currentTransformation # NoTransformation
    THEN TransformedPosition(imageCoordinateMarkers[k].data.imageX,
                             imageCoordinateMarkers[k].data.imageY)
    ELSE convertImageToLatLng(State, imageCoordinateMarkers[k].data.imageX,
                              imageCoordinateMarkers[k].data.imageY)

\* where the pass has to put marker m: an entity it cannot transform stays
ExpectedPosition(m) ==
    IF PointEntriesOf(m) # {} THEN ExpectedPoint(CHOOSE k \in PointEntriesOf(m) : TRUE)
    ELSE IF m \in TrackedRouteSpot /\ IsImageOrigin(m)
            /\ currentTransformation # NoTransformation
    THEN TransformedPosition(markers[m].meta.imageX, markers[m].meta.imageY)
    ELSE markers[m].latlng

\* C6: a pass leaves an entity it cannot transform where it is and repositions
\* every other entity, also the ones after it in the list.
BadEntityIsSkipped ==
    SyncPass(State).markers =
        [m \in 1..Len(markers) |-> [markers[m] EXCEPT !.latlng = ExpectedPosition(m)]]

\* a pass has moved a route waypoint that follows an entity without image
\* coordinates in the list
BadEntityIsSkippedWitness ==
    /\ obs.routeSpotPasses > 0
    /\ \E i, j \in 1..Len(routeMarkers) :
          /\ i < j
          /\ ~hasImageXY(markers[routeMarkers[i]].meta)
          /\ markers[routeMarkers[i]].latlng = markers[routeMarkers[i]].created
          /\ IsImageOrigin(routeMarkers[j])
          /\ markers[routeMarkers[j]].latlng # markers[routeMarkers[j]].created

\* C7: a second pass with the same transformation, bounds and entities leaves
\* every marker where the first pass put it.
UnchangedByPass(first) == SyncPass(first).markers = first.markers

SyncPassIdempotent == UnchangedByPass(SyncPass(State))

\* the first pass moves an image-origin marker
SyncPassIdempotentWitness ==
    /\ currentTransformation # NoTransformation
    /\ \E m \in TrackedRouteSpot :
          IsImageOrigin(m) /\ SyncPass(State).markers[m].latlng # markers[m].latlng

\* what a failed run has to leave alone
RunChangedNothing ==
    /\ RunFromHere.currentTransformation = currentTransformation
    /\ RunFromHere.transformedCenter = executeGeoreferencing(State).transformedCenter
    /\ RunFromHere.currentScale = executeGeoreferencing(State).currentScale
    /\ RunFromHere.imageOverlay = executeGeoreferencing(State).imageOverlay
    /\ RunFromHere.imageUpdateCallbacks = imageUpdateCallbacks
    /\ RunFromHere.imageUpdateCallbackRegistered = imageUpdateCallbackRegistered

\* C8: with fewer than three matched pairs the run fails with an error and the
\* stored transformation, the overlay's centre and scale and the subscription are
\* what they were.
InsufficientPairsAreFatal ==
    (CanRun /\ Len(matchPointJsonWithGPS(State, gpsPoints).matchedPairs) < 3)
    => RunFromHere.obs.result = "error" /\ RunChangedNothing

\* the match handler has reported a run with two pairs
InsufficientPairsAreFatalWitness ==
    /\ obs.result = "error"
    /\ obs.matched = 2
    /\ pointJsonData # Undef

\* C9: with three or more matched pairs and unsolvable normal equations the run
\* fails with an error, and no transformation is stored or applied.
SingularSystemIsFatal ==
    (CanRun /\ RunFromHere.obs.matched >= 3 /\ ~RunFromHere.obs.solvable)
    => RunFromHere.obs.result = "error" /\ RunChangedNothing

\* C10: no handler starts while another one is suspended at an await.
HandlersNeverInterleave == ~obs.overlapped

\* the transformation the estimator creates from the pairs matched in this state
EstimateFromHere ==
    calculatePreciseTransformation(matchPointJsonWithGPS(State, gpsPoints).matchedPairs)

\* C11: a step changes the stored transformation only if it is an estimation run
\* that completed with a solvable system, and then the stored transformation is
\* the one the estimator created in that run; data loads, notifications,
\* synchronisation passes, failed runs and the export leave it as it is.
TransformationOnlyByRun ==
    [][currentTransformation' # currentTransformation
       => /\ obs'.result = "completed"
          /\ obs'.solvable
          /\ obs'.matched >= 3
          /\ currentTransformation' = EstimateFromHere]_vars

\* a transformation is stored, the last step was not a completed run, and the
\* data loaded since would give another transformation
TransformationOnlyByRunWitness ==
    /\ currentTransformation # NoTransformation
    /\ obs.result # "completed"
    /\ EstimateFromHere # currentTransformation

\* the call of matchPointJsonWithGPS has returned
Matched == call.method = "matchPointJsonWithGPS" /\ returned # << >>

\* `[${index}] (...)`, the entry of an entity that carries no identifier
Placeholder(index) == "[" \o ToString(index) \o "] (no id)"

\* the result lists the entity under the identifier id: as a matched pair of that
\* identifier, or as an unmatched identifier
ListedAs(e, id) ==
    \/ \E j \in 1..Len(returned[1].matchedPairs) :
          /\ returned[1].matchedPairs[j].pointJson = e
          /\ returned[1].matchedPairs[j].pointJsonId = id
    \/ \E j \in 1..Len(returned[1].unmatchedPointJsonIds) :
          returned[1].unmatchedPointJsonIds[j] = id

\* C13: an entity is listed under its Id, without Id under its id, without both
\* under its name, and without all three under a placeholder that carries its
\* index; every entity of the input is listed.
IdentifierResolvedInOrder ==
    Matched =>
        \A k \in 1..Len(call.pointJson) :
            /\ call.pointJson[k].Id # "" => ListedAs(call.pointJson[k], call.pointJson[k].Id)
            /\ (call.pointJson[k].Id = "" /\ call.pointJson[k].id # "")
                   => ListedAs(call.pointJson[k], call.pointJson[k].id)
            /\ (call.pointJson[k].Id = "" /\ call.pointJson[k].id = ""
                   /\ call.pointJson[k].name # "")
                   => ListedAs(call.pointJson[k], call.pointJson[k].name)
            /\ (call.pointJson[k].Id = "" /\ call.pointJson[k].id = ""
                   /\ call.pointJson[k].name = "")
                   => ListedAs(call.pointJson[k], Placeholder(k - 1))

\* an entity without identifier stands before one that is matched by its name
IdentifierResolvedInOrderWitness ==
    /\ Matched
    /\ Len(call.pointJson) = 3
    /\ call.pointJson[1].Id = "" /\ call.pointJson[1].id = "" /\ call.pointJson[1].name = ""
    /\ call.pointJson[2].Id = "" /\ call.pointJson[2].id = "" /\ call.pointJson[2].name = "C"
    /\ call.pointJson[3].Id = "B"
    /\ Len(returned[1].matchedPairs) = 2
    /\ returned[1].unmatchedPointJsonIds = <<Placeholder(0)>>


\* the entity's resolved identifier is the pointId of a GPS point of the call
HasGpsCounterpart(e) ==
    /\ FirstOf(e.Id, e.id, e.name) # ""
    /\ \E g \in 1..Len(call.gpsPoints) :
          call.gpsPoints[g].pointId = FirstOf(e.Id, e.id, e.name)

\* the positions of the input whose entity has / has no GPS counterpart
WithCounterpart == {k \in 1..Len(call.pointJson) : HasGpsCounterpart(call.pointJson[k])}

\* C14: the matched pairs are the entities whose resolved identifier equals the
\* pointId of a GPS point, each paired with a GPS point of exactly that pointId;
\* every other entity gives one entry of the unmatched list, so that matched and
\* unmatched together count every entity of the input once.
ExactIdentifierMatchOnly ==
    Matched =>
        /\ Len(returned[1].matchedPairs) = Cardinality(WithCounterpart)
        /\ \A j \in 1..Len(returned[1].matchedPairs) :
              /\ \E k \in WithCounterpart :
                    returned[1].matchedPairs[j].pointJson = call.pointJson[k]
              /\ \E g \in 1..Len(call.gpsPoints) :
                    returned[1].matchedPairs[j].gpsPoint = call.gpsPoints[g]
              /\ returned[1].matchedPairs[j].gpsPoint.pointId
                    = returned[1].matchedPairs[j].pointJsonId
        /\ Len(returned[1].unmatchedPointJsonIds)
              = Len(call.pointJson) - Cardinality(WithCounterpart)
        /\ Len(returned[1].matchedPairs) + Len(returned[1].unmatchedPointJsonIds)
              = returned[1].totalPointJsons
        /\ returned[1].totalPointJsons = Len(call.pointJson)

\* one entity is matched, one has an identifier no GPS point carries, and one has
\* no identifier
ExactIdentifierMatchOnlyWitness ==
    /\ Matched
    /\ Len(call.gpsPoints) = 3
    /\ Len(returned[1].matchedPairs) = 1
    /\ Len(returned[1].unmatchedPointJsonIds) = 2
    /\ \E j \in 1..2 : returned[1].unmatchedPointJsonIds[j] = "Z"


\* the matched entities, and the entries of the others, in the order of the input
RECURSIVE MatchedInOrderFrom(_)
MatchedInOrderFrom(k) ==
    IF k > Len(call.pointJson) THEN << >>
    ELSE (IF k \in WithCounterpart THEN <<call.pointJson[k]>> ELSE << >>)
         \o MatchedInOrderFrom(k + 1)

RECURSIVE UnmatchedInOrderFrom(_)
UnmatchedInOrderFrom(k) ==
    IF k > Len(call.pointJson) THEN << >>
    ELSE (IF k \in WithCounterpart THEN << >>
          ELSE IF FirstOf(call.pointJson[k].Id, call.pointJson[k].id,
                          call.pointJson[k].name) = ""
          THEN <<Placeholder(k - 1)>>
          ELSE <<FirstOf(call.pointJson[k].Id, call.pointJson[k].id,
                         call.pointJson[k].name)>>)
         \o UnmatchedInOrderFrom(k + 1)

ControlPointsAreFinite ==
    Matched =>
        \A j \in 1..Len(returned[1].matchedPairs) :
            /\ isFinite(returned[1].matchedPairs[j].pointJson.imageX)
            /\ isFinite(returned[1].matchedPairs[j].pointJson.imageY)
            /\ isFinite(returned[1].matchedPairs[j].gpsPoint.lat)
            /\ isFinite(returned[1].matchedPairs[j].gpsPoint.lng)


\* both spots carry imageX and imageY
BothHaveImageXY ==
    /\ call.spot1.imageX # Undef /\ call.spot1.imageY # Undef
    /\ call.spot2.imageX # Undef /\ call.spot2.imageY # Undef

\* |p - q| < limit
CloserThan(p, q, limit) ==
    \/ RLt(RSub(p, q), limit) /\ RLe(q, p)
    \/ RLt(RSub(q, p), limit) /\ RLe(p, q)

\* C17: isSameSpot is true exactly when both spots carry pixel coordinates that
\* differ by less than 0.1 px in each axis, or, when not both carry pixel
\* coordinates, both carry resolved coordinates that differ by less than 0.0001
\* degrees in each axis.
SameSpotByPixelThenGps ==
    (call.method = "isSameSpot" /\ returned # << >>) =>
        returned[1] =
            IF BothHaveImageXY
            THEN /\ CloserThan(call.spot1.imageX, call.spot2.imageX, Rat(1, 10))
                 /\ CloserThan(call.spot1.imageY, call.spot2.imageY, Rat(1, 10))
            ELSE /\ call.spot1.coordinates # Undef
                 /\ call.spot2.coordinates # Undef
                 /\ CloserThan(call.spot1.coordinates[1], call.spot2.coordinates[1],
                               Rat(1, 10000))
                 /\ CloserThan(call.spot1.coordinates[2], call.spot2.coordinates[2],
                               Rat(1, 10000))

\* (100, 50) and (100.05, 50.05) are the same spot although their resolved
\* coordinates are a degree apart
SameSpotByPixelThenGpsWitness ==
    /\ call.method = "isSameSpot"
    /\ returned = <<TRUE>>
    /\ call.spot1.imageX = Num(100) /\ call.spot1.imageY = Num(50)
    /\ call.spot2.imageX = Rat(2001, 20) /\ call.spot2.imageY = Rat(1001, 20)
    /\ call.spot1.coordinates = <<Num(35), Num(135)>>
    /\ call.spot2.coordinates = <<Num(35), Num(136)>>


\* the identifier of an end point: its id, else its name
EndId(point) == IF point[1].id # "" THEN point[1].id ELSE point[1].name

\* a route has both end points / both identifiers / both positions
HasEnds(route) == route.startPoint # Undef /\ route.endPoint # Undef

HasEndIds(route) == EndId(route.startPoint) # "" /\ EndId(route.endPoint) # ""

HasEndPositions(route) ==
    /\ Truthy(route.startPoint[1].lat) /\ Truthy(route.startPoint[1].lng)
    /\ Truthy(route.endPoint[1].lat) /\ Truthy(route.endPoint[1].lng)

\* two end points less than 0.0001 degrees apart in each axis
SamePlace(p, q) ==
    /\ CloserThan(p[1].lat, q[1].lat, Rat(1, 10000))
    /\ CloserThan(p[1].lng, q[1].lng, Rat(1, 10000))

Merged == call.method = "mergeAndDeduplicate" /\ returned # << >>

\* the entries of the store that the record duplicates
DuplicatesOf(record) ==
    {k \in 1..Len(call.existingData) :
        IF call.type = "spot" THEN isSameSpot(call.existingData[k], record)
        ELSE isSameRoute(call.existingData[k], record)}

\* the first of them
FirstDuplicateOf(record) ==
    CHOOSE k \in DuplicatesOf(record) : \A j \in DuplicatesOf(record) : k <= j

\* the stored spot has every field that the record carries, and the coordinates
\* of the entry before
TakenOver(stored, before, record) ==
    /\ stored.coordinates = before.coordinates
    /\ stored.fileName = record.fileName
    /\ stored.spotId = record.spotId
    /\ record.name # "" => stored.name = record.name
    /\ record.id # "" => stored.id = record.id
    /\ record.imageX # Undef => stored.imageX = record.imageX
    /\ record.imageY # Undef => stored.imageY = record.imageY
    /\ record.lat # Undef => stored.lat = record.lat
    /\ record.lng # Undef => stored.lng = record.lng

\* what merging one record does to the store
MergedOne(record) ==
    IF DuplicatesOf(record) = {} THEN returned[1] = Append(call.existingData, record)
    ELSE /\ Len(returned[1]) = Len(call.existingData)
         /\ \A k \in 1..Len(call.existingData) :
               IF k # FirstDuplicateOf(record) THEN returned[1][k] = call.existingData[k]
               ELSE IF call.type = "route" THEN returned[1][k] = record
               ELSE TakenOver(returned[1][k], call.existingData[k], record)

\* C19: a record that duplicates an entry leaves the size of the store as it is;
\* the entry of a duplicate spot takes the fields of the record and keeps the
\* coordinates of the record that created the entry; the entry of a duplicate
\* route becomes the record; any other record is appended, and the entries keep
\* their order; the records of a batch are merged one after the other.
MergeKeepsFirstCoordinates ==
    Merged =>
        /\ Len(call.newData) = 1 => MergedOne(call.newData[1])
        /\ Len(call.newData) = 2 =>
              returned[1] = mergeAndDeduplicate(
                               mergeAndDeduplicate(call.existingData,
                                                   <<call.newData[1]>>, call.type),
                               <<call.newData[2]>>, call.type)
        /\ call.type = "spot" =>
              \A k \in 1..Len(call.created) : returned[1][k].coordinates = call.created[k]

\* a second load brings spot b, which duplicates the stored spot a: the entry is
\* b with the coordinates of a
MergeKeepsFirstCoordinatesWitness ==
    /\ Merged
    /\ call.merges = 1
    /\ call.type = "spot"
    /\ Len(call.newData) = 1
    /\ Len(returned[1]) = Len(call.existingData)
    /\ returned[1][1].name = "b"
    /\ call.existingData[1].name = "a"
    /\ returned[1][1].coordinates = <<Num(35), Num(135)>>


\* the features of a type that an export from this state collects
FeaturesOfType(type) ==
    {k \in 1..Len(collectGeoreferencedData(State)) :
        collectGeoreferencedData(State)[k].type = type}

\* the image-origin waypoints of the routes in the route store, as <<route, point>>
StoredImageWaypoints ==
    {rp \in (1..Len(routeData)) \X (1..MaxMarkers) :
        /\ rp[2] <= Len(routeData[rp[1]].points)
        /\ hasImageXY(routeData[rp[1]].points[rp[2]])}

\* the image-origin spots in the spot store
StoredImageSpots == {k \in 1..Len(spotData) : hasImageXY(spotData[k])}

\* C20: once a transformation has been estimated, an export holds one feature
\* for each matched GPS point, one for each image-origin waypoint of each route in
\* the route store, and one for each image-origin spot in the spot store.
OneFeaturePerEntity ==
    currentTransformation # NoTransformation =>
        /\ Cardinality(FeaturesOfType("ポイントGPS"))
              = Len(matchPointJsonWithGPS(State, gpsPoints).matchedPairs)
        /\ Cardinality(FeaturesOfType("route_waypoint")) = Cardinality(StoredImageWaypoints)
        /\ Cardinality(FeaturesOfType("spot")) = Cardinality(StoredImageSpots)


\* twice the area of the triangle of three image positions
Cross(p, q, r) ==
    RSub(RMul(RSub(q.imageX, p.imageX), RSub(r.imageY, p.imageY)),
         RMul(RSub(q.imageY, p.imageY), RSub(r.imageX, p.imageX)))

\* fewer than three control points, or all image positions on one line
Degenerate(controlPoints) ==
    \/ Len(controlPoints) < 3
    \/ \A i, j, k \in 1..Len(controlPoints) :
          Cross(controlPoints[i].pointJson, controlPoints[j].pointJson,
                controlPoints[k].pointJson) = Num(0)

\* C12: calculatePreciseTransformation returns null for every control-point set
\* with fewer than three points or with all image positions on one line, and a
\* transformation for every other set.
EstimateFailsOnDegenerateSets ==
    (call.method = "calculatePreciseTransformation" /\ returned # << >>)
    => (returned[1] = NoTransformation <=> Degenerate(call.controlPoints))



\* the GPS markers on the map are the points of the list, each at its position
GpsMarkersShowList ==
    /\ Len(gpsMarkers) = Len(gpsPoints)
    /\ \A i \in 1..Len(gpsPoints) :
          /\ gpsMarkers[i].data = gpsPoints[i]
          /\ gpsMarkers[i].latlng = <<gpsPoints[i].lat, gpsPoints[i].lng>>

\* C21: the GPS list is the data of the last successful load with one marker per
\* point at the point's position; the list and the markers change only in a
\* successful GPS load, so a load without a valid point, an estimation run and a
\* synchronisation pass leave them as they are.
GpsListFollowsLoads ==
    /\ []GpsMarkersShowList
    /\ [][(gpsPoints' # gpsPoints \/ gpsMarkers' # gpsMarkers)
           => /\ gpsPoints' \in GpsSheets
              /\ gpsPoints' # << >>
              /\ obs'.result = ""]_vars

\* a load without a valid point has failed while a list is loaded and a
\* transformation is stored
GpsListFollowsLoadsWitness ==
    /\ obs.result = "gps load error"
    /\ gpsPoints # << >>
    /\ currentTransformation # NoTransformation

\* C22: when the image dimensions are not positive, or the metres per pixel,
\* an offset or a bound is not a positive finite number, updateImageDisplay and
\* setTransformedPosition leave the bounds, the transformed centre and the
\* current scale as they were and send no image-updated notification.
InvalidGeometry(image, centerPos, scale) ==
    \/ RLe(image.width, Num(0)) \/ RLe(image.height, Num(0))
    \/ PlacementBounds(centerPos, image.width, image.height, scale,
                       InitialView.zoom) = Undef

CallHasInvalidGeometry ==
    IF call.method = "setTransformedPosition"
    THEN InvalidGeometry(call.overlay.currentImage,
                         <<call.centerLat, call.centerLng>>, call.scale)
    ELSE /\ call.method = "updateImageDisplay"
         /\ InvalidGeometry(call.overlay.currentImage,
                            IF call.overlay.transformedCenter # Undef
                            THEN call.overlay.transformedCenter
                            ELSE <<InitialView.lat, InitialView.lng>>,
                            getCurrentScale(call.overlay))

InvalidGeometryNotApplied ==
    (call.method \in {"setTransformedPosition", "updateImageDisplay"}
     /\ returned # << >> /\ CallHasInvalidGeometry)
        => returned[1] = [imageOverlay |-> call.overlay.imageOverlay,
                          transformedCenter |-> call.overlay.transformedCenter,
                          currentScale |-> call.overlay.currentScale,
                          notifications |-> 0]

\* the part of C22 that is about updateImageDisplay
UpdateImageDisplayNotApplied ==
    call.method = "updateImageDisplay" => InvalidGeometryNotApplied

\* C23: gaussJordan(A, B) returns null when A and B differ in their row counts
\* or a pivot is below 1e-10 after the row exchange, and in every other case
\* the unique x with A x = B: a system for which a solution is returned has
\* exactly one.  [[2,1],[1,3]] x = [3,5] gives [0.8, 1.4]; [[1,2],[2,4]] gives
\* null.
\* a 2 x 2 matrix of whole numbers >= 0 whose determinant is 0
Singular(A) ==
    BigMul(BigOf(A[1][1][1]), BigOf(A[2][2][1]))
        = BigMul(BigOf(A[1][2][1]), BigOf(A[2][1][1]))

GaussJordanExamples ==
    (call.method = "gaussJordan" /\ returned # << >>)
        => /\ (call.A = WholeMatrix(<<<<2, 1>>, <<1, 3>>>>) /\ call.B = Whole(<<3, 5>>))
                => returned[1] = <<ToFloat64(Rat(4, 5)), ToFloat64(Rat(7, 5))>>
           /\ call.A = WholeMatrix(<<<<1, 2>>, <<2, 4>>>>) => returned[1] = Undef
           /\ Len(call.A) # Len(call.B) => returned[1] = Undef

GaussJordanSolvesUniquely ==
    /\ GaussJordanExamples
    /\ (call.method = "gaussJordan" /\ returned # << >> /\ returned[1] # Undef)
            => Len(call.A) = Len(call.B) /\ ~Singular(call.A)

\* C24: transpose(matrix) returns null for every empty matrix (no rows, or a
\* first row without columns) and for every ragged one; for a rectangular
\* r x c matrix it returns a c x r matrix with out[j][i] = in[i][j].
EmptyMatrix(matrix) == Len(matrix) = 0 \/ Len(matrix[1]) = 0

RaggedMatrix(matrix) == \E r \in DOMAIN matrix : Len(matrix[r]) # Len(matrix[1])

IsTransposeOf(out, in) ==
    /\ Len(out) = Len(in[1])
    /\ \A j \in DOMAIN out :
          /\ Len(out[j]) = Len(in)
          /\ \A i \in DOMAIN in : out[j][i] = in[i][j]

\* the part of C24 about rectangular matrices
TransposeOfRectangular ==
    (call.method = "transpose" /\ returned # << >>
     /\ ~EmptyMatrix(call.matrix) /\ ~RaggedMatrix(call.matrix))
        => ~returned[1].null /\ IsTransposeOf(returned[1].matrix, call.matrix)

TransposeRejectsEmptyAndRagged ==
    /\ TransposeOfRectangular
    /\ (call.method = "transpose" /\ returned # << >>
        /\ (EmptyMatrix(call.matrix) \/ RaggedMatrix(call.matrix)))
            => returned[1].null

\* C25: applyAffineTransform returns null, never a coordinate pair, when the
\* transformation is absent, has no coefficient object, or lacks one of the
\* coefficients a..f.
MissingCoefficient(trans) ==
    \E k \in {"a", "b", "c", "d", "e", "f"} : trans[k] = Undef

Malformed(transformation) ==
    \/ transformation = NoTransformation
    \/ transformation.transformation = NoCoefficients
    \/ MissingCoefficient(transformation.transformation)

\* the part of C25 about an absent transformation or coefficient object
AbsentTransformationFails ==
    (call.method = "applyAffineTransform" /\ returned # << >>
     /\ (\/ call.transformation = NoTransformation
         \/ call.transformation.transformation = NoCoefficients))
        => returned[1] = Undef

MalformedTransformationFails ==
    (call.method = "applyAffineTransform" /\ returned # << >>
     /\ Malformed(call.transformation))
        => returned[1] = Undef

\* C26: every GPS point accepted by the loaders (the validation of the Excel
\* rows and the processing of GeoJSON features) has |lat| < 90, so that no
\* point with |lat| >= 90 reaches the Web Mercator conversion of an estimation.
LoaderReturned ==
    /\ call.method \in {"validateAndConvertExcelData", "processGeoJsonData"}
    /\ returned # << >>

\* what the validation of the Excel rows does guarantee
ExcelLatitudesWithinRange ==
    (LoaderReturned /\ call.method = "validateAndConvertExcelData")
        => \A k \in DOMAIN returned[1] :
              /\ RLe(RAbs(returned[1][k].lat), Num(90))
              /\ RLe(RAbs(returned[1][k].lng), Num(180))

AcceptedLatitudesBelow90 ==
    LoaderReturned
        => \A k \in DOMAIN returned[1] : RLt(RAbs(returned[1][k].lat), Num(90))

\* C27: after any sequence of point loads, by the single-file and by the
\* multi-file handler, Georeferencing.imageCoordinateMarkers holds each
\* georeference-point marker at most once and no marker that has been removed
\* from the map.
RegistryHoldsEachMarkerOnce ==
    \A j, k \in 1..Len(imageCoordinateMarkers) :
        j # k => imageCoordinateMarkers[j].marker # imageCoordinateMarkers[k].marker

RegistryHoldsNoRemovedMarker ==
    \A k \in 1..Len(imageCoordinateMarkers) :
        markers[imageCoordinateMarkers[k].marker].onMap

RegistryOfLiveMarkers ==
    RegistryHoldsEachMarkerOnce /\ RegistryHoldsNoRemovedMarker

\* a marker of the list is on the map at the transformed position of the
\* image coordinates of the stored entity
ShownTransformed(list, entity) ==
    \E k \in 1..Len(list) :
        /\ markers[list[k]].onMap
        /\ markers[list[k]].meta.imageX = entity.imageX
        /\ markers[list[k]].meta.imageY = entity.imageY
        /\ markers[list[k]].latlng = TransformedPosition(entity.imageX, entity.imageY)

\* C28: in whatever order the image and the route/spot files were loaded, after
\* a successful run every image-origin waypoint of routeData and every
\* image-origin spot of spotData has a marker on the map at its transformed
\* position.
StoredEntitiesShownAfterRun ==
    (obs.result = "completed" /\ obs.solvable
     /\ currentTransformation # NoTransformation)
    => /\ \A rp \in StoredImageWaypoints :
            ShownTransformed(routeMarkers, routeData[rp[1]].points[rp[2]])
       /\ \A k \in StoredImageSpots : ShownTransformed(spotMarkers, spotData[k])

\* no handler is suspended at an await or waiting for its timer
Quiescent == ~MultiSuspended /\ imageLoad = 0

\* C29: in every quiescent state with a stored transformation every
\* image-origin marker on the map is displayed at applyAffineTransform of its
\* image coordinates, also a marker created by a point, route or spot load
\* after the estimation.
MarkersAgreeWhenQuiescent ==
    (Quiescent /\ currentTransformation # NoTransformation)
    => /\ \A k \in TrackedPoints :
            markers[imageCoordinateMarkers[k].marker].onMap
                => PointPosition(k)
                     = TransformedPosition(imageCoordinateMarkers[k].data.imageX,
                                           imageCoordinateMarkers[k].data.imageY)
       /\ \A m \in TrackedRouteSpot :
            (IsImageOrigin(m) /\ markers[m].onMap)
                => markers[m].latlng = TransformedPosition(markers[m].meta.imageX,
                                                          markers[m].meta.imageY)

\* an image point, by its identifier and pixel coordinates
PointKey(point) == <<point.id, point.imageX, point.imageY>>

\* the image points that matching reads from pointJsonData
OfferedPoints ==
    IF pointJsonData = Undef THEN {}
    ELSE {PointKey(pointJsonData[1].points[k]) : k \in 1..Len(pointJsonData[1].points)}

\* the image points with a georeference-point marker on the map
DisplayedPoints ==
    {PointKey(imageCoordinateMarkers[k].data) :
        k \in {j \in 1..Len(imageCoordinateMarkers) :
                  markers[imageCoordinateMarkers[j].marker].onMap}}

\* C30: when a multi-file load with several point files ends, the image points
\* offered to matching (pointJsonData) are the points with a georeference-point
\* marker on the map, the points of every point file of the batch.
SeveralPointFilesOffered ==
    [][(/\ MultiSuspended /\ ~MultiSuspended'
        /\ imageOverlay # Undef
        /\ ~multiLoad.shouldClearMarkers
        /\ detectJsonType(Head(multiLoad.files)) = "point")
       => OfferedPoints' = DisplayedPoints']_vars

=============================================================================
